---- MODULE Spec2Model ----
(***************************************************************************)
(* Model of the image search of ImageDatabase: the main window             *)
(* (Application, src/app/gui/application.py) and its search thread         *)
(* (_SearchThread), whose _preprocess protects quoted metatag values,      *)
(* expands compound tags and restores the protected values.                *)
(*                                                                         *)
(* A string is a sequence of characters; a character is a one-character    *)
(* TLA+ string.  The strings of the model are over Alphabet.               *)
(***************************************************************************)
EXTENDS Integers, Sequences, FiniteSets, TLC

BS == "\\"
DQ == "\""
SL == "/"

Letters == {"a", "b", "c", "d", "e", "f", "g", "h", "i", "j", "k", "l", "m",
            "n", "o", "p", "q", "r", "s", "t", "u", "v", "w", "x", "y", "z"}
Digits == {"0", "1", "2", "3", "4", "5", "6", "7", "8", "9"}
OctDigits == {"0", "1", "2", "3", "4", "5", "6", "7"}
\* \w of Python's re, on the alphabet
WordChars == Letters \cup Digits \cup {"_"}
\* \s of Python's re, on the alphabet
SpaceChars == {" "}
Alphabet == WordChars \cup SpaceChars \cup {BS, DQ, SL, ":", "%", "(", ")", "-"}

None == "None"

SetMin(S) == CHOOSE x \in S : \A y \in S : x <= y

(***************************************************************************)
(* str and re helpers                                                      *)
(***************************************************************************)

\* f'{index}': the decimal digits of a natural number
DigitChar(d) ==
    CASE d = 0 -> "0" [] d = 1 -> "1" [] d = 2 -> "2" [] d = 3 -> "3"
      [] d = 4 -> "4" [] d = 5 -> "5" [] d = 6 -> "6" [] d = 7 -> "7"
      [] d = 8 -> "8" [] d = 9 -> "9"

RECURSIVE Dec(_)
Dec(n) == IF n < 10 THEN <<DigitChar(n)>>
          ELSE Dec(n \div 10) \o <<DigitChar(n % 10)>>

\* A placeholder that is itself a literal: the key k and the index in quotes
PlaceholderQuoted(index) == <<"k", ":", "\"">> \o Dec(index) \o <<"\"">>

\* f'%%{index}%%'
Placeholder(index) == <<"%", "%">> \o Dec(index) \o <<"%", "%">>

\* t occurs in s at position p
OccursAt(s, t, p) ==
    /\ p >= 1
    /\ p + Len(t) - 1 <= Len(s)
    /\ \A i \in 1..Len(t) : s[p + i - 1] = t[i]

\* str.find, 1-based, 0 when absent
Find(s, t) ==
    LET c == {p \in 1..(Len(s) - Len(t) + 1) : OccursAt(s, t, p)}
    IN  IF c = {} THEN 0 ELSE SetMin(c)

Contains(s, t) == Find(s, t) # 0

\* s with the Len(t) characters at p replaced by r
ReplaceAt(s, p, t, r) ==
    SubSeq(s, 1, p - 1) \o r \o SubSeq(s, p + Len(t), Len(s))

\* str.replace(old, new, 1)
StrReplaceCount1(s, old, new) ==
    LET p == Find(s, old)
    IN  IF p = 0 THEN s ELSE ReplaceAt(s, p, old, new)

\* str.replace(old, new): every non-overlapping occurrence, left to right
RECURSIVE StrReplaceAll(_, _, _)
StrReplaceAll(s, old, new) ==
    LET p == Find(s, old)
    IN  IF p = 0 \/ Len(old) = 0 THEN s
        ELSE SubSeq(s, 1, p - 1) \o new
             \o StrReplaceAll(SubSeq(s, p + Len(old), Len(s)), old, new)

\* str.strip() on the alphabet
RECURSIVE LStrip(_)
LStrip(s) == IF Len(s) > 0 /\ Head(s) \in SpaceChars THEN LStrip(Tail(s)) ELSE s

RECURSIVE RStrip(_)
RStrip(s) == IF Len(s) > 0 /\ s[Len(s)] \in SpaceChars
             THEN RStrip(SubSeq(s, 1, Len(s) - 1)) ELSE s

Strip(s) == RStrip(LStrip(s))

\* the first position from p on whose character is not in S (Len(s)+1 if none):
\* the end of a greedy S* started at p
SkipWhile(s, p, S) ==
    CHOOSE j \in p..(Len(s) + 1) :
        /\ \A i \in p..(j - 1) : s[i] \in S
        /\ (j = Len(s) + 1 \/ s[j] \notin S)

\* the end of a greedy run of backslash pairs started at p
PairsEnd(s, p) ==
    LET r == SkipWhile(s, p, {BS}) IN p + 2 * ((r - p) \div 2)

(***************************************************************************)
(* The metatag-value pattern of _preprocess (line 643): word characters,   *)
(* optional spaces, a colon, optional spaces, a delimiter (double quote or *)
(* slash), a value, and the same delimiter again.                          *)
(***************************************************************************)

\* The position of the closing delimiter d of a value that starts at v, or 0.
\* First alternative: only pairs of backslashes.  Second alternative: a lazy
\* prefix, one character that is no backslash, then pairs of backslashes.
ValueEnd(s, v, d) ==
    LET e1 == PairsEnd(s, v)
        c2 == {c \in v..Len(s) :
                 /\ s[c] # BS
                 /\ LET e == PairsEnd(s, c + 1)
                    IN  e <= Len(s) /\ s[e] = d}
    IN  IF e1 <= Len(s) /\ s[e1] = d THEN e1
        ELSE IF c2 = {} THEN 0
        ELSE PairsEnd(s, SetMin(c2) + 1)

\* The last position of the match of the pattern that starts at p, or 0.
MetaTagMatchEnd(s, p) ==
    IF ~(p >= 1 /\ p <= Len(s) /\ s[p] \in WordChars) THEN 0
    ELSE LET q1 == SkipWhile(s, p, WordChars)
             q2 == SkipWhile(s, q1, SpaceChars)
         IN  IF ~(q2 <= Len(s) /\ s[q2] = ":") THEN 0
             ELSE LET q3 == SkipWhile(s, q2 + 1, SpaceChars)
                  IN  IF ~(q3 <= Len(s) /\ s[q3] \in {DQ, SL}) THEN 0
                      ELSE ValueEnd(s, q3 + 1, s[q3])

\* re.search: the leftmost match, [start, end], start = 0 when there is none
MetaTagSearch(s) ==
    LET c == {p \in 1..Len(s) : MetaTagMatchEnd(s, p) # 0}
    IN  IF c = {} THEN [start |-> 0, end |-> 0]
        ELSE [start |-> SetMin(c), end |-> MetaTagMatchEnd(s, SetMin(c))]

(***************************************************************************)
(* Compound-tag substitution of _preprocess (line 658):                    *)
(*   re.sub of the pattern "non-word character or start, label, non-word   *)
(*   character or end" by the template "group 1, definition in parentheses,*)
(*   group 2".  label and definition are interpolated as they are.         *)
(***************************************************************************)

\* A compound tag as tags_dao.get_all_tags returns it
CompoundTag(label, definition) ==
    [label |-> label, definition |-> definition, type |-> 0]

\* fr'\1({tag.definition})\2'
Template(definition) ==
    <<BS, "1", "(">> \o definition \o <<")", BS, "2">>

\* The escapes re knows in a replacement template besides the backslash
TemplateEscapes == {"a", "b", "f", "n", "r", "t", "v"}

\* The character such an escape stands for (one value per control character)
ControlChar(c) == "\\" \o c

\* The width of the template item at position i and what it is:
\*   "char"  one character copied; "keep" a backslash and the next character
\*   copied as they are; "bs" an escaped backslash; "ctl" a control character;
\*   "g1"/"g2" a group reference; "oct" an octal escape; "bad" an error
\*   (bad escape, invalid group reference, missing group name).
\* The alphabet has no "<", so a \g never starts a well-formed \g<name>.
TemplateItem(tpl, i) ==
    IF tpl[i] # BS THEN [kind |-> "char", width |-> 1]
    ELSE IF i = Len(tpl) THEN [kind |-> "bad", width |-> 1]
    ELSE LET c == tpl[i + 1]
             d2 == i + 2 <= Len(tpl) /\ tpl[i + 2] \in Digits
             d3 == i + 3 <= Len(tpl) /\ tpl[i + 3] \in Digits
         IN  IF c = BS THEN [kind |-> "bs", width |-> 2]
             ELSE IF c = "g" THEN [kind |-> "bad", width |-> 2]
             ELSE IF c = "0" THEN
                 [kind |-> "oct",
                  width |-> IF d2 /\ tpl[i + 2] \in OctDigits
                            THEN (IF d3 /\ tpl[i + 3] \in OctDigits THEN 4 ELSE 3)
                            ELSE 2]
             ELSE IF c \in Digits THEN
                 IF d2 THEN
                     IF /\ c \in OctDigits /\ tpl[i + 2] \in OctDigits
                        /\ d3 /\ tpl[i + 3] \in OctDigits
                     THEN [kind |-> IF c \in {"0", "1", "2", "3"} THEN "oct" ELSE "bad",
                           width |-> 4]
                     ELSE [kind |-> "bad", width |-> 3]
                 ELSE IF c = "1" THEN [kind |-> "g1", width |-> 2]
                 ELSE IF c = "2" THEN [kind |-> "g2", width |-> 2]
                 ELSE [kind |-> "bad", width |-> 2]
             ELSE IF c \in TemplateEscapes THEN [kind |-> "ctl", width |-> 2]
             ELSE IF c \in Letters THEN [kind |-> "bad", width |-> 2]
             ELSE [kind |-> "keep", width |-> 2]

\* re raises re.error for the template (before it looks for a match)
RECURSIVE TemplateBadFrom(_, _)
TemplateBadFrom(tpl, i) ==
    IF i > Len(tpl) THEN FALSE
    ELSE LET it == TemplateItem(tpl, i)
         IN  it.kind = "bad" \/ TemplateBadFrom(tpl, i + it.width)

TemplateBad(tpl) == TemplateBadFrom(tpl, 1)

\* The octal escape at i as one character
OctalChar(tpl, i, width) ==
    IF width = 2 THEN "\\0"
    ELSE IF width = 3 THEN "\\" \o tpl[i + 1] \o tpl[i + 2]
    ELSE "\\" \o tpl[i + 1] \o tpl[i + 2] \o tpl[i + 3]

\* The text a well-formed template stands for, given the two groups
RECURSIVE TemplateExpandFrom(_, _, _, _)
TemplateExpandFrom(tpl, i, g1, g2) ==
    IF i > Len(tpl) THEN <<>>
    ELSE LET it == TemplateItem(tpl, i)
             here == CASE it.kind = "char" -> <<tpl[i]>>
                       [] it.kind = "keep" -> <<BS, tpl[i + 1]>>
                       [] it.kind = "bs" -> <<BS>>
                       [] it.kind = "ctl" -> <<ControlChar(tpl[i + 1])>>
                       [] it.kind = "g1" -> g1
                       [] it.kind = "g2" -> g2
                       [] it.kind = "oct" -> <<OctalChar(tpl, i, it.width)>>
                       [] OTHER -> <<>>
         IN  here \o TemplateExpandFrom(tpl, i + it.width, g1, g2)

TemplateExpand(tpl, g1, g2) == TemplateExpandFrom(tpl, 1, g1, g2)

\* The match of the label pattern that starts at pos: group 1 is a non-word
\* character, or empty at the start of the string; group 2 is a non-word
\* character, or empty at the end of the string.
LabelMatchAt(s, label, pos) ==
    LET viaNonWord == s[pos] \notin WordChars
        lp == IF viaNonWord THEN pos + 1 ELSE pos
        after == lp + Len(label)
        okStart == viaNonWord \/ pos = 1
        okLabel == OccursAt(s, label, lp)
        okEnd == after = Len(s) + 1 \/ (after <= Len(s) /\ s[after] \notin WordChars)
    IN  IF okStart /\ okLabel /\ okEnd
        THEN [ok |-> TRUE,
              g1 |-> IF viaNonWord THEN <<s[pos]>> ELSE <<>>,
              g2 |-> IF after <= Len(s) THEN <<s[after]>> ELSE <<>>,
              next |-> IF after <= Len(s) THEN after + 1 ELSE after]
        ELSE [ok |-> FALSE, g1 |-> <<>>, g2 |-> <<>>, next |-> pos + 1]

\* re.sub over the whole string: non-overlapping matches, left to right
RECURSIVE ReSubLabelFrom(_, _, _, _)
ReSubLabelFrom(s, label, tpl, pos) ==
    IF pos > Len(s) THEN <<>>
    ELSE LET m == LabelMatchAt(s, label, pos)
         IN  (IF m.ok THEN TemplateExpand(tpl, m.g1, m.g2) ELSE <<s[pos]>>)
             \o ReSubLabelFrom(s, label, tpl, m.next)

\* re.sub(fr'(\W|^){tag.label}(\W|$)', fr'\1({tag.definition})\2', query)
ReSubLabel(tag, query) ==
    ReSubLabelFrom(query, tag.label, Template(tag.definition), 1)

\* One pass of the for loop of lines 657-658 over tags i..Len(tags):
\* the query after it, raised = TRUE when re.sub raised re.error
RECURSIVE ForTags(_, _, _)
ForTags(tags, i, query) ==
    IF i > Len(tags) THEN [raised |-> FALSE, query |-> query]
    ELSE IF TemplateBad(Template(tags[i].definition))
         THEN [raised |-> TRUE, query |-> query]
         ELSE ForTags(tags, i + 1, ReSubLabel(tags[i], query))

(***************************************************************************)
(* _SearchThread                                                           *)
(***************************************************************************)

\* _SearchThread._MAXIMUM_DEPTH
MAXIMUM_DEPTH == 20

\* _t('thread.search.error.max_recursion', max_depth=...)
MaxRecursionMsg == "thread.search.error.max_recursion"
\* _t('thread.search.error.image_loading_error')
ImageLoadingMsg == "thread.search.error.image_loading_error"
\* str(e) of the ValueError of queries.query_to_sympy
SyntaxErrorMsg == "ValueError"

\* What a DAO read returns: a list, or None when the read failed
Some(list) == [none |-> FALSE, list |-> list]
Nothing == [none |-> TRUE, list |-> <<>>]

\* re.sub(re.escape(match[1]), f'%%{index}%%', query, count=1): the escaped
\* text matches itself only, and the first match is replaced
ReSubLiteralAll(text, repl, query) == StrReplaceAll(query, text, repl)

ReSubLiteralCount1(text, repl, query) == StrReplaceCount1(query, text, repl)

\* One iteration of the while loop of lines 643-647 on a thread record
ProtectIter(th) ==
    LET m == MetaTagSearch(th.query)
        text == SubSeq(th.query, m.start, m.end)
        index == th.index + 1
    IN  IF m.start = 0 THEN [th EXCEPT !.pc = "get_all_tags"]
        ELSE [th EXCEPT !.index = index,
                        !.meta_tag_values = Append(@, text),
                        !.query = ReSubLiteralCount1(text, Placeholder(index), @)]

\* The for loop of lines 665-666 from index i on
RECURSIVE RestoreFrom(_, _, _)
RestoreFrom(query, values, i) ==
    IF i > Len(values) THEN query
    ELSE RestoreFrom(StrReplaceCount1(query, Placeholder(i), values[i]), values, i + 1)

\* The list the for loop of line 657 walks: the local compound_tags that line
\* 651 bound, not the store (db is the store's table at the time of the pass)
LoopTagsReread(compound_tags, db) == Some(db)

LoopTags(compound_tags, db) == compound_tags

\* depth >= self._MAXIMUM_DEPTH (line 660)
DepthReached(depth) == depth >= MAXIMUM_DEPTH

\* `not self._error` (line 622)
ErrorIgnored(error) == TRUE

NoError(error) == error = None \/ error = ""

\* _SearchThread.failed
Failed(th) == th.error # None

\* lines 619-620: where run goes first
RunEntryAlwaysPreprocess(tagless_images) == "protect"

RunEntry(tagless_images) == IF tagless_images THEN "check_error" ELSE "protect"

\* _SearchThread.__init__; calls is the trace of the stages the thread entered
NewThread(query, tagless_images) ==
    [query |-> query, tagless_images |-> tagless_images,
     images |-> Some(<<>>), error |-> None,
     pc |-> "run",
     index |-> 0, meta_tag_values |-> <<>>,
     compound_tags |-> Some(<<>>), previous_query |-> <<>>, depth |-> 0,
     exception |-> None, calls |-> <<>>, query_arg |-> query, simplify_calls |-> {}]

(***************************************************************************)
(* The query compiler behind queries.query_to_sympy and the matcher behind *)
(* ImageDao.get_images.  Their code is in app/queries.py, app/grammar.lark *)
(* and app/data_access, outside the source files at hand: they are         *)
(* modelled from sections 4.3 to 4.5 of the specification.                 *)
(***************************************************************************)

\* Expression: Literal (a tag or a metatag), And, Or, Const, and the negation
\* of a group as the parser leaves it
TagLiteral(name, negated) ==
    [kind |-> "tag", name |-> name, negated |-> negated, value |-> FALSE,
     children |-> <<>>]
MetaTagLiteral(name, negated) ==
    [kind |-> "metatag", name |-> name, negated |-> negated, value |-> FALSE,
     children |-> <<>>]
And(children) ==
    [kind |-> "and", name |-> <<>>, negated |-> FALSE, value |-> FALSE,
     children |-> children]
Or(children) ==
    [kind |-> "or", name |-> <<>>, negated |-> FALSE, value |-> FALSE,
     children |-> children]
Not(child) ==
    [kind |-> "not", name |-> <<>>, negated |-> FALSE, value |-> FALSE,
     children |-> <<child>>]
Const(value) ==
    [kind |-> "const", name |-> <<>>, negated |-> FALSE, value |-> value,
     children |-> <<>>]

IsLiteral(e) == e.kind \in {"tag", "metatag"}

\* Body applied to x, x computed once
With(x, Body(_)) == CHOOSE v \in {Body(r) : r \in {x}} : TRUE

\* The keywords, case-insensitive; the alphabet has lower-case letters only
KeywordAnd == <<"a", "n", "d">>
KeywordOr == <<"o", "r">>
KeywordNot == <<"n", "o", "t">>

Token(type, text) == [type |-> type, text |-> text]

\* The tokens of s from position p on.  A metatag is an identifier, a colon and
\* a quoted value, a regex value (both as the metatag-value pattern delimits
\* them) or a bare word; an unterminated value and any character that begins
\* no token give a token of type "bad".
RECURSIVE Tokenize(_, _)
Tokenize(s, p) ==
    With(SkipWhile(s, p, SpaceChars), LAMBDA q :
        IF q > Len(s) THEN <<>>
        ELSE IF s[q] = "(" THEN <<Token("lpar", <<"(">>)>> \o Tokenize(s, q + 1)
        ELSE IF s[q] = ")" THEN <<Token("rpar", <<")">>)>> \o Tokenize(s, q + 1)
        ELSE IF s[q] = "-" THEN <<Token("not", <<"-">>)>> \o Tokenize(s, q + 1)
        ELSE IF s[q] \notin WordChars THEN <<Token("bad", <<s[q]>>)>>
        ELSE With(SkipWhile(s, q, WordChars), LAMBDA w :
            LET word == SubSeq(s, q, w - 1)
            IN  IF w <= Len(s) /\ s[w] = ":"
                THEN IF w + 1 <= Len(s) /\ s[w + 1] \in {DQ, SL}
                     THEN With(ValueEnd(s, w + 2, s[w + 1]), LAMBDA e :
                              IF e = 0
                              THEN <<Token("bad", SubSeq(s, q, Len(s)))>>
                              ELSE <<Token("metatag", SubSeq(s, q, e))>>
                                   \o Tokenize(s, e + 1))
                     ELSE With(SkipWhile(s, w + 1, WordChars), LAMBDA r :
                              IF r = w + 1
                              THEN <<Token("bad", SubSeq(s, q, w))>>
                              ELSE <<Token("metatag", SubSeq(s, q, r - 1))>>
                                   \o Tokenize(s, r))
                ELSE IF word = KeywordAnd
                THEN <<Token("and", word)>> \o Tokenize(s, w)
                ELSE IF word = KeywordOr
                THEN <<Token("or", word)>> \o Tokenize(s, w)
                ELSE IF word = KeywordNot
                THEN <<Token("not", word)>> \o Tokenize(s, w)
                ELSE <<Token("tag", word)>> \o Tokenize(s, w)))

ParseFailure == [ok |-> FALSE, next |-> 0, expr |-> Const(FALSE)]
Parsed(expr, next) == [ok |-> TRUE, next |-> next, expr |-> expr]

\* The token at i begins a term
BeginsTerm(toks, i) ==
    i <= Len(toks) /\ toks[i].type \in {"tag", "metatag", "lpar", "not"}

Group(kind, children) ==
    IF Len(children) = 1 THEN children[1]
    ELSE IF kind = "and" THEN And(children) ELSE Or(children)

\* query := conjunction ("OR" conjunction)*
\* conjunction := term (("AND")? term)*      AND binds tighter than OR
\* term := ("NOT" | "-") atom | atom
\* atom := tag-literal | metatag-literal | "(" query ")"
RECURSIVE ParseOr(_, _)
RECURSIVE ParseOrRest(_, _, _)
RECURSIVE ParseAnd(_, _)
RECURSIVE ParseAndRest(_, _, _)
RECURSIVE ParseTerm(_, _)
RECURSIVE ParseAtom(_, _)

ParseAtom(toks, i) ==
    IF i > Len(toks) THEN ParseFailure
    ELSE IF toks[i].type = "tag"
    THEN Parsed(TagLiteral(toks[i].text, FALSE), i + 1)
    ELSE IF toks[i].type = "metatag"
    THEN Parsed(MetaTagLiteral(toks[i].text, FALSE), i + 1)
    ELSE IF toks[i].type = "lpar"
    THEN With(ParseOr(toks, i + 1), LAMBDA r :
             IF r.ok /\ r.next <= Len(toks) /\ toks[r.next].type = "rpar"
             THEN Parsed(r.expr, r.next + 1)
             ELSE ParseFailure)
    ELSE ParseFailure

\* A leading NOT or - sets the negation flag of a literal and negates a group
ParseTerm(toks, i) ==
    IF i <= Len(toks) /\ toks[i].type = "not"
    THEN With(ParseAtom(toks, i + 1), LAMBDA r :
             IF ~r.ok THEN ParseFailure
             ELSE IF toks[i + 1].type \in {"tag", "metatag"}
             THEN Parsed([r.expr EXCEPT !.negated = TRUE], r.next)
             ELSE Parsed(Not(r.expr), r.next))
    ELSE ParseAtom(toks, i)

ParseAndRest(toks, i, children) ==
    IF i <= Len(toks) /\ toks[i].type = "and"
    THEN With(ParseTerm(toks, i + 1), LAMBDA r :
             IF r.ok THEN ParseAndRest(toks, r.next, Append(children, r.expr))
             ELSE ParseFailure)
    ELSE IF BeginsTerm(toks, i)
    THEN With(ParseTerm(toks, i), LAMBDA r :
             IF r.ok THEN ParseAndRest(toks, r.next, Append(children, r.expr))
             ELSE ParseFailure)
    ELSE Parsed(Group("and", children), i)

ParseAnd(toks, i) ==
    With(ParseTerm(toks, i), LAMBDA r :
        IF r.ok THEN ParseAndRest(toks, r.next, <<r.expr>>) ELSE ParseFailure)

ParseOrRest(toks, i, children) ==
    IF i <= Len(toks) /\ toks[i].type = "or"
    THEN With(ParseAnd(toks, i + 1), LAMBDA r :
             IF r.ok THEN ParseOrRest(toks, r.next, Append(children, r.expr))
             ELSE ParseFailure)
    ELSE Parsed(Group("or", children), i)

ParseOr(toks, i) ==
    With(ParseAnd(toks, i), LAMBDA r :
        IF r.ok THEN ParseOrRest(toks, r.next, <<r.expr>>) ELSE ParseFailure)

\* The parser: the whole text must reduce to one query
ParseQuery(text) ==
    With(Tokenize(text, 1), LAMBDA toks :
        With(ParseOr(toks, 1), LAMBDA r :
            IF r.ok /\ r.next = Len(toks) + 1 THEN r ELSE ParseFailure))

\* The children of the nodes of kind kind among children, spliced in place
RECURSIVE Flatten(_, _)
Flatten(kind, children) ==
    IF children = <<>> THEN <<>>
    ELSE (IF Head(children).kind = kind THEN Head(children).children
          ELSE <<Head(children)>>) \o Flatten(kind, Tail(children))

\* children without the repetitions of a child, the first occurrence kept
RECURSIVE Deduplicate(_)
Deduplicate(children) ==
    IF children = <<>> THEN <<>>
    ELSE With(Deduplicate(SubSeq(children, 1, Len(children) - 1)), LAMBDA front :
             LET last == children[Len(children)]
             IN  IF \E i \in DOMAIN front : front[i] = last THEN front
                 ELSE Append(front, last))

\* children without the constants equal to value
RECURSIVE DropConst(_, _)
DropConst(children, value) ==
    IF children = <<>> THEN <<>>
    ELSE (IF Head(children).kind = "const" /\ Head(children).value = value
          THEN <<>> ELSE <<Head(children)>>) \o DropConst(Tail(children), value)

\* No literal counts as the negation of another
ComplementaryNever(children) == FALSE

\* children holds a literal and its negation
Complementary(children) ==
    \E i, j \in DOMAIN children :
        /\ IsLiteral(children[i])
        /\ children[j] = [children[i] EXCEPT !.negated = ~@]

\* Combine with the repetitions removed before the children are flattened
CombineDeduplicateFirst(kind, children) ==
    With(With(With(Deduplicate(children), LAMBDA c : Flatten(kind, c)),
              LAMBDA c : DropConst(c, kind = "and")), LAMBDA kept :
        IF Complementary(kept) THEN Const(kind = "or")
        ELSE IF kept = <<>> THEN Const(kind = "and")
        ELSE IF Len(kept) = 1 THEN kept[1]
        ELSE IF kind = "and" THEN And(kept) ELSE Or(kept))

\* An And or Or of canonical children: flattened, without the constant it
\* absorbs and without repetitions; a constant when it holds a literal and its
\* negation or nothing is left; the child itself when one is left
Combine(kind, children) ==
    With(Deduplicate(With(With(children, LAMBDA c : Flatten(kind, c)),
                          LAMBDA c : DropConst(c, kind = "and"))), LAMBDA kept :
        IF Complementary(kept) THEN Const(kind = "or")
        ELSE IF kept = <<>> THEN Const(kind = "and")
        ELSE IF Len(kept) = 1 THEN kept[1]
        ELSE IF kind = "and" THEN And(kept) ELSE Or(kept))

\* The normal form of e, or of its negation when negate: negations are pushed
\* to the literals (double negation, De Morgan)
RECURSIVE Normalize(_, _)
Normalize(e, negate) ==
    IF e.kind = "const" THEN Const(e.value # negate)
    ELSE IF IsLiteral(e) THEN [e EXCEPT !.negated = (@ # negate)]
    ELSE IF e.kind = "not" THEN Normalize(e.children[1], ~negate)
    ELSE LET kind == IF negate THEN (IF e.kind = "and" THEN "or" ELSE "and")
                     ELSE e.kind
         IN  Combine(kind, [i \in DOMAIN e.children |->
                               Normalize(e.children[i], negate)])

\* The canonicalizer
Canonicalize(e) == Normalize(e, FALSE)

\* queries.query_to_sympy(query, simplify): the expression of the query,
\* canonical when simplify; ok is FALSE when it raises ValueError
QueryToSympy(query, simplify) ==
    With(ParseQuery(query), LAMBDA r :
        [ok |-> r.ok,
         expr |-> IF r.ok /\ simplify THEN Canonicalize(r.expr) ELSE r.expr])

\* The images of store that hold no tag at all count for nothing here: the
\* tagged images without those of name
NegatedAmongTagged(store, name) ==
    UNION {store.members[n] : n \in DOMAIN store.members} \ store.members[name]

\* The images a negated literal selects: the universe minus the member set
NegatedMembers(store, name) == store.universe \ store.members[name]

\* The intersection of universe and sets[i], sets[i + 1], ...
RECURSIVE IntersectFrom(_, _, _)
IntersectFrom(sets, i, universe) ==
    IF i > Len(sets) THEN universe
    ELSE sets[i] \cap IntersectFrom(sets, i + 1, universe)

\* The evaluator: store is [universe |-> the ids of all images,
\* members |-> the set of image ids of every tag and metatag name]
RECURSIVE Evaluate(_, _)
Evaluate(e, store) ==
    IF e.kind = "const" THEN (IF e.value THEN store.universe ELSE {})
    ELSE IF IsLiteral(e)
    THEN (IF e.negated THEN NegatedMembers(store, e.name)
          ELSE store.members[e.name])
    ELSE IF e.kind = "not" THEN store.universe \ Evaluate(e.children[1], store)
    ELSE IF e.kind = "and"
    THEN IntersectFrom([c \in DOMAIN e.children |-> Evaluate(e.children[c], store)],
                       1, store.universe)
    ELSE UNION {Evaluate(e.children[c], store) : c \in DOMAIN e.children}

\* The store without images
EmptyStore == [universe |-> {}, members |-> <<>>]

\* No query has been handed to the compiler yet
IdleCompiler ==
    [pc |-> "idle", query |-> <<>>, expr |-> Const(FALSE), steps |-> 0,
     canonical |-> Const(FALSE), store |-> EmptyStore, images |-> {}]

(***************************************************************************)
(* State                                                                   *)
(***************************************************************************)
VARIABLES
    input_text,          \* text of Application._input_field
    keystrokes,          \* number of edits of the query field so far
    search_btn_enabled,  \* Application._search_btn.isEnabled()
    input_field_enabled, \* Application._input_field.isEnabled()
    search_thread,       \* Application._search_thread: index in threads, 0 = None
    threads,             \* every _SearchThread created so far, in creation order
    compound_db,         \* the compound tags of the database, in the DAO's order
    popup,               \* the message of the last error popup, None if none yet
    tabs,                \* the images and the count in the title of both list tabs
    aborted,             \* the process was terminated by Qt (qFatal)
    dialog,              \* the EditTagsDialog of Application._edit_tags
    compiler,            \* one compilation and evaluation of a query
    library,             \* the image records of the database and the files on disk
    edit_dialog          \* the EditImageDialog

vars == <<input_text, keystrokes, search_btn_enabled, input_field_enabled,
          search_thread, threads, compound_db, popup, tabs, aborted, dialog,
          compiler, library, edit_dialog>>

app_vars == <<input_text, keystrokes, search_btn_enabled, input_field_enabled,
              search_thread, compound_db, popup, tabs, dialog, compiler, library,
              edit_dialog>>

(***************************************************************************)
(* Inputs                                                                  *)
(***************************************************************************)

\* Bounds of the search model (SearchSpec) and of the window model (Spec)
SearchMaxTokens == 2
MaxTokens == 1
MaxThreads == 2

\* Bounds of the dialog model (DialogSpec): the rows of the compound tags table
\* and the operations of the user on the dialog
MaxRows == 2
MaxDialogOps == 4

\* the text l
TOK_L == <<"l">>
\* the text  
TOK_SPACE == <<" ">>
\* the text a
TOK_A == <<"a">>
\* the text k:"l"
TOK_QUOTED_L == <<"k", ":", "\"", "l", "\"">>
\* the text k:/a/
TOK_REGEX_A == <<"k", ":", "/", "a", "/">>
\* the text %%1%%
TOK_PLACEHOLDER == <<"%", "%", "1", "%", "%">>
\* the text k:"%%2%%"
TOK_QUOTED_PLACEHOLDER == <<"k", ":", "\"", "%", "%", "2", "%", "%", "\"">>
\* the text k:"
TOK_OPEN == <<"k", ":", "\"">>
\* the text "
TOK_DQ == <<"\"">>
\* the text \
TOK_BS == <<"\\">>
\* the text l k:/\d/
DEF_REGEX == <<"l", " ", "k", ":", "/", "\\", "d", "/">>

\* the text k:/\\/, a regex value that matches one backslash
DEF_BACKSLASH == <<"k", ":", "/", "\\", "\\", "/">>

\* Pieces of query text the user types or pastes in one edit
SearchTokens == {
    TOK_L,
    TOK_SPACE,
    TOK_A,
    TOK_QUOTED_L,
    TOK_REGEX_A,
    TOK_PLACEHOLDER,
    TOK_QUOTED_PLACEHOLDER,
    TOK_OPEN,
    TOK_DQ,
    TOK_BS }

Tokens == {TOK_L, TOK_QUOTED_L}

\* "a" repeated n times
RECURSIVE Rep(_)
Rep(n) == IF n = 0 THEN <<>> ELSE <<"a">> \o Rep(n - 1)

\* n compound tags a, aa, aaa, ..., each defined as the next longer one, listed
\* longest first: every pass of the expansion resolves one level
Chain(n) == [j \in 1..n |-> CompoundTag(Rep(n - j + 1), Rep(n - j + 2))]

\* Compound-tag tables of the database
TABLE_EMPTY == <<>>
TABLE_ACYCLIC == <<CompoundTag(<<"l">>, <<"a">>)>>
TABLE_SELF == <<CompoundTag(<<"l">>, <<"l">>)>>
TABLE_CYCLE2 == <<CompoundTag(<<"l">>, <<"b">>), CompoundTag(<<"b">>, <<"l">>)>>
TABLE_DIGIT == <<CompoundTag(<<"1">>, <<"a">>), CompoundTag(<<"l">>, <<"a">>)>>
TABLE_REGEX_DEF == <<CompoundTag(<<"l">>, DEF_REGEX)>>
TABLE_BACKSLASH_DEF == <<CompoundTag(<<"l">>, DEF_BACKSLASH)>>
TABLE_CHAIN_SHORT == Chain(2)
TABLE_CHAIN_DEEP == Chain(MAXIMUM_DEPTH - 1)

SearchTables == {TABLE_EMPTY, TABLE_ACYCLIC, TABLE_SELF, TABLE_CYCLE2, TABLE_DIGIT,
                 TABLE_REGEX_DEF, TABLE_CHAIN_SHORT, TABLE_CHAIN_DEEP}

Tables == {TABLE_EMPTY, TABLE_ACYCLIC, TABLE_REGEX_DEF}

\* What images_dao.get_images / get_tagless_images return: image ids in the
\* store's order (the path order is the id order), or None
ImageResults == {Nothing, Some(<<2, 1>>)}

\* the text b or b
DEF_OR == <<"b", " ", "o", "r", " ", "b">>
\* the text (
DEF_OPEN == <<"(">>
\* the text made of one space
DEF_BLANK == <<" ">>

\* What the user types in a label cell and in a definition cell of the dialog
LabelTexts == {<<"l">>, <<"b">>}
DefinitionTexts == {DEF_OR, DEF_OPEN, DEF_BLANK}

\* Compound-tag tables of the database when the dialog model starts
DialogTables == {TABLE_EMPTY, TABLE_ACYCLIC}

\* Bound of the compiler model (CompilerSpec): the operations that build a
\* larger expression from the parsed one
MaxExprOps == 2

\* The tags of the queries handed to the compiler
CompilerTags == {<<"a">>, <<"b">>}

\* The texts a, a and not (not a), a or a, a and not a, -a for the tag a
AndNotNot(a) ==
    a \o <<" ", "a", "n", "d", " ", "n", "o", "t", " ", "(", "n", "o", "t", " ">>
      \o a \o <<")">>
OrSelf(a) == a \o <<" ", "o", "r", " ">> \o a
AndNot(a) == a \o <<" ", "a", "n", "d", " ", "n", "o", "t", " ">> \o a
Minus(a) == <<"-">> \o a

\* the text a b
QUERY_A_B == <<"a", " ", "b">>
\* the text (a or b) and -b
QUERY_GROUPS == <<"(", "a", " ", "o", "r", " ", "b", ")", " ", "a", "n", "d", " ",
                  "-", "b">>

\* The queries handed to the compiler; DEF_OPEN is rejected
CompilerQueries ==
    UNION {{a, AndNotNot(a), OrSelf(a), AndNot(a), Minus(a)} : a \in CompilerTags}
        \cup {QUERY_A_B, QUERY_GROUPS, DEF_OPEN}

\* The literals the larger expressions are built with
CompilerLiterals ==
    {TagLiteral(<<"a">>, FALSE), TagLiteral(<<"a">>, TRUE),
     TagLiteral(<<"b">>, FALSE), Const(TRUE), Const(FALSE)}

\* The stores: three images, image 3 without tag
Stores ==
    {[universe |-> {1, 2, 3},
      members |-> [n \in CompilerTags |-> IF n = <<"a">> THEN a ELSE b]] :
        a \in {{1}, {1, 2}}, b \in {{}, {2}}}

\* Compound-tag tables of the database over a sequence of searches
SearchesTables == {TABLE_ACYCLIC, TABLE_SELF, TABLE_BACKSLASH_DEF}

\* the text k:"b"
TOK_QUOTED_B == <<"k", ":", "\"", "b", "\"">>
\* the text k:/b/
TOK_REGEX_B == <<"k", ":", "/", "b", "/">>

\* Tables where the definition of l is a metatag whose quoted or regex value
\* is the label of the compound tag b
TABLE_QUOTED_DEF == <<CompoundTag(<<"b">>, <<"a">>), CompoundTag(<<"l">>, TOK_QUOTED_B)>>
TABLE_REGEX_VALUE_DEF == <<CompoundTag(<<"b">>, <<"a">>), CompoundTag(<<"l">>, TOK_REGEX_B)>>
DefinitionsTables == {TABLE_QUOTED_DEF, TABLE_REGEX_VALUE_DEF}
DefinitionValues == {TOK_QUOTED_B, TOK_REGEX_B}

\* The dialog with tag types: the operations of the user, the ids of the tag
\* types and the tables of the database (the tag l has the type 1)
MaxTypesOps == 4
TagTypes == {1, 2}
TypesTables ==
    {<<[CompoundTag(<<"l">>, <<"a">>) EXCEPT !.type = 1],
       CompoundTag(<<"b">>, <<"a">>)>>}

\* The longer runs of the dialog: the operations of the user, the rows of the
\* table, the texts typed in a definition cell and the tables of the database
MaxApplyOps == 7
ApplyDefinitionTexts == {DEF_OR, DEF_OPEN}
ApplyTables == {TABLE_CYCLE2}

\* Bounds of the image models: the deletions and renames (LibrarySpec), the
\* images handed to the EditImageDialog and the clicks on it (EditImageSpec)
MaxLibraryOps == 2
MaxImages == 3
MaxEditOps == 5

EmptyTabs == [paths |-> <<>>, paths_nb |-> 0, thumbs |-> <<>>, thumbs_nb |-> 0]

(***************************************************************************)
(* EditTagsDialog (src/app/gui/dialogs/_edit_tags_dialog.py) and its       *)
(* compound tags tab (CompoundTagsTab, src/app/gui/dialogs/_tabs.py).      *)
(* Rows and row sets are 1-based.  The id of a compound tag is its         *)
(* position in the table of the database.  The tag types tab and the tags  *)
(* tab are kept as the result of their check_integrity and whether they    *)
(* hold modified rows.                                                     *)
(***************************************************************************)

\* 'new_tag', the label of an added row (line 640)
NewTagLabel == <<"n", "e", "w", "_", "t", "a", "g">>

\* model.Tag.LABEL_PATTERN: the label charset, letters, digits and underscore
LabelPatternMatches(text) ==
    Len(text) > 0 /\ \A i \in DOMAIN text : text[i] \in WordChars

\* TagsDao.tag_exists(tag_id, label): another tag of the database has the label
TagExists(db, tag_id, label) ==
    \E p \in DOMAIN db : p # tag_id /\ db[p].label = label

\* The characters of the alphabet in the order of their codes
AsciiOrder ==
    <<" ", "\"", "%", "(", ")", "-", "/",
      "0", "1", "2", "3", "4", "5", "6", "7", "8", "9", ":", "\\", "_",
      "a", "b", "c", "d", "e", "f", "g", "h", "i", "j", "k", "l", "m",
      "n", "o", "p", "q", "r", "s", "t", "u", "v", "w", "x", "y", "z">>

Ord(c) == CHOOSE i \in DOMAIN AsciiOrder : AsciiOrder[i] = c

\* a < b for strings
StrLess(a, b) ==
    \E k \in 1..(Len(b)) :
        /\ k <= Len(a) + 1
        /\ \A i \in 1..(k - 1) : a[i] = b[i]
        /\ (k = Len(a) + 1 \/ Ord(a[k]) < Ord(b[k]))

\* tags ordered by label, tags of equal label in the order they have
RECURSIVE SortByLabel(_)
SortByLabel(tags) ==
    IF tags = <<>> THEN <<>>
    ELSE LET m == CHOOSE i \in DOMAIN tags :
                      /\ \A j \in DOMAIN tags : ~StrLess(tags[j].label, tags[i].label)
                      /\ \A j \in 1..(i - 1) : StrLess(tags[i].label, tags[j].label)
         IN  <<tags[m]>> \o SortByLabel(SubSeq(tags, 1, m - 1)
                                        \o SubSeq(tags, m + 1, Len(tags)))

\* TagsDao.get_all_tags(CompoundTag, sort_by_label=True) when it succeeds
AllTagsSorted(db) ==
    SortByLabel([p \in DOMAIN db |->
                    [ident |-> p, label |-> db[p].label,
                     definition |-> db[p].definition, type |-> db[p].type]])

\* _TagsTab._set_row: the cells of a row of the table
TableRow(tag) ==
    [ident |-> tag.ident, label |-> tag.label, definition |-> tag.definition,
     type |-> tag.type, hidden |-> FALSE]

\* _set_row(None, row): the row that add_row inserts
AddedRow(dummy_type_id) ==
    [ident |-> dummy_type_id, label |-> NewTagLabel, definition |-> <<>>,
     type |-> 0, hidden |-> FALSE]

\* _TagsTab.get_value
GetValue(table, row) ==
    [ident |-> table[row].ident, label |-> table[row].label,
     definition |-> table[row].definition, type |-> table[row].type]

\* The text of the cell: column 1 is the label, column 2 the definition
CellText(table, row, col) ==
    IF col = 1 THEN table[row].label ELSE table[row].definition

\* The simplify argument of the calls of query_to_sympy: the search (line 626
\* of application.py) and the check of a definition cell (line 838 of _tabs.py)
SearchSimplify == TRUE

ValidationSimplifyOn == TRUE

ValidationSimplify == FALSE

\* CompoundTagsTab._check_cell_format
CheckCellFormat(db, table, row, col) ==
    IF col = 1
    THEN /\ LabelPatternMatches(table[row].label)
         /\ ~TagExists(db, table[row].ident, table[row].label)
    ELSE QueryToSympy(table[row].definition, ValidationSimplify).ok

\* Tab._check_column from row row on: "OK", "EMPTY", "FORMAT" or "DUPLICATE"
RECURSIVE CheckColumnFrom(_, _, _, _, _)
CheckColumnFrom(db, table, column, check_duplicates, row) ==
    IF row > Len(table) THEN "OK"
    ELSE IF table[row].hidden
    THEN CheckColumnFrom(db, table, column, check_duplicates, row + 1)
    ELSE IF Strip(CellText(table, row, column)) = <<>> THEN "EMPTY"
    ELSE IF ~CheckCellFormat(db, table, row, column) THEN "FORMAT"
    ELSE IF /\ check_duplicates
            /\ \E r \in DOMAIN table :
                   /\ ~table[r].hidden
                   /\ r # row
                   /\ CellText(table, r, column) = CellText(table, row, column)
    THEN "DUPLICATE"
    ELSE CheckColumnFrom(db, table, column, check_duplicates, row + 1)

CheckColumn(db, table, column, check_duplicates) ==
    CheckColumnFrom(db, table, column, check_duplicates, 1)

\* Tab.check_integrity of the compound tags tab: columns_to_check is
\* {1: True, 2: False}
TabCheckIntegrity(db, table) ==
    /\ CheckColumn(db, table, 1, TRUE) = "OK"
    /\ CheckColumn(db, table, 2, FALSE) = "OK"

\* _check_column of the definition column reaches its call of query_to_sympy:
\* the first row that is not hidden has a definition that is not blank
ColumnParses(table) ==
    \E row \in DOMAIN table :
        /\ ~table[row].hidden
        /\ \A r \in 1..(row - 1) : table[r].hidden
        /\ Strip(table[row].definition) # <<>>

\* Tab.modified_rows_number of the compound tags tab
ModifiedRowsNumber(d) ==
    Cardinality(d.changed_rows) + Cardinality(d.added_rows)
        + Cardinality(d.deleted_rows)

\* EditTagsDialog._check_integrity.  all() stops at the first tab whose check
\* fails: the tabs are the tag types, the compound tags and the tags.
CheckIntegrity(d, db) ==
    LET compound == TabCheckIntegrity(db, d.table)
        valid == d.types_valid /\ compound /\ d.tags_valid
        edited_rows_nb == (IF d.types_modified THEN 1 ELSE 0) + ModifiedRowsNumber(d)
                              + (IF d.tags_modified THEN 1 ELSE 0)
        parsed == /\ d.types_valid
                  /\ CheckColumn(db, d.table, 1, TRUE) = "OK"
                  /\ ColumnParses(d.table)
    IN  [d EXCEPT !.valid = valid,
                  !.apply_enabled = edited_rows_nb > 0 /\ valid,
                  !.ok_enabled = valid,
                  !.simplify_calls = IF parsed THEN @ \cup {ValidationSimplify} ELSE @]

\* No _apply has run in the dialog
NoApply ==
    [called |-> FALSE, tabs |-> {}, failed_tabs |-> {},
     attempted |-> [added |-> {}, deleted |-> {}, changed |-> {}],
     failed |-> {},
     after |-> [added |-> {}, deleted |-> {}, changed |-> {}],
     ok |-> TRUE, raised |-> FALSE, error_shown |-> FALSE, apply_disabled |-> FALSE]

\* The dialog that is not on screen.  ops counts the operations of the user on
\* the dialogs so far and simplify_calls holds the simplify argument of every
\* call of query_to_sympy the dialogs made: both outlive a dialog.  apply_log
\* holds what the last _apply of the dialog did: the tabs whose apply was
\* called and those that returned False, and for the compound tags tab the rows
\* whose DAO call was made, those whose call returned False, the row sets and
\* the value returned (or raised: an exception left apply); whether the error
\* popup was shown and the Apply button disabled.
ClosedDialog ==
    [open |-> FALSE, table |-> <<>>, values |-> <<>>,
     changed_rows |-> {}, added_rows |-> {}, deleted_rows |-> {},
     dummy_type_id |-> -1, types |-> {},
     types_valid |-> TRUE, types_modified |-> FALSE,
     tags_valid |-> TRUE, tags_modified |-> FALSE,
     valid |-> TRUE, apply_enabled |-> FALSE, ok_enabled |-> FALSE,
     simplify_calls |-> {}, exception |-> None, error |-> None,
     apply_log |-> NoApply,
     ops |-> 0]

\* _TagsTab.init: the table and _values are loaded from the database; loaded is
\* what get_all_tags returned
InitTab(d, loaded) ==
    LET values == IF loaded.none THEN <<>> ELSE loaded.list
    IN  [d EXCEPT !.values = values,
                  !.table = [i \in DOMAIN values |-> TableRow(values[i])],
                  !.error = IF loaded.none THEN "popup.tags_load_error.text" ELSE @]

\* The rows of rows in ascending order
RECURSIVE RowsInOrder(_)
RowsInOrder(rows) ==
    IF rows = {} THEN <<>>
    ELSE <<SetMin(rows)>> \o RowsInOrder(rows \ {SetMin(rows)})

\* _TagsTab.apply of the compound tags tab.  failed: the rows whose DAO call
\* returns False.  get_value of a row the table does not have finds no cell and
\* the constructor of the tag raises: the loop of that row set stops somewhere
\* (done: the rows it handled before), the later loops do not run.
\* Result: the database, the row sets, the rows whose DAO call was made, the
\* returned value and the exception.
TabApply(d, db, failed, done) ==
    LET rows == DOMAIN d.table
        stale_added == d.added_rows \ rows
        stale_deleted == d.deleted_rows \ rows
        stale_changed == d.changed_rows \ rows
        run_deleted == stale_added = {}
        run_changed == run_deleted /\ stale_deleted = {}
        completed == run_changed /\ stale_changed = {}
        added == IF stale_added = {} THEN d.added_rows ELSE done \cap d.added_rows
        deleted == IF ~run_deleted THEN {}
                   ELSE IF stale_deleted = {} THEN d.deleted_rows
                   ELSE done \cap d.deleted_rows
        changed == IF ~run_changed THEN {}
                   ELSE IF stale_changed = {} THEN d.changed_rows
                   ELSE done \cap d.changed_rows
        \* add_compound_tag
        new_rows == RowsInOrder((added \cap rows) \ failed)
        new_tags == [i \in DOMAIN new_rows |->
                        [CompoundTag(d.table[new_rows[i]].label,
                                     d.table[new_rows[i]].definition)
                            EXCEPT !.type = d.table[new_rows[i]].type]]
        \* delete_tag
        deleted_ids == {d.table[r].ident : r \in (deleted \cap rows) \ failed}
        \* update_tag
        updates == (changed \cap rows) \ failed
        Updated(p) ==
            IF \E r \in updates : d.table[r].ident = p
            THEN LET r == CHOOSE r \in updates : d.table[r].ident = p
                 IN  [CompoundTag(d.table[r].label, d.table[r].definition)
                         EXCEPT !.type = d.table[r].type]
            ELSE db[p]
        kept == RowsInOrder(DOMAIN db \ deleted_ids)
    IN  [db |-> [i \in DOMAIN kept |-> Updated(kept[i])] \o new_tags,
         added_rows |-> IF stale_added = {} THEN d.added_rows \cap failed
                        ELSE d.added_rows,
         deleted_rows |-> IF run_changed THEN d.deleted_rows \cap failed
                          ELSE d.deleted_rows,
         changed_rows |-> IF completed THEN d.changed_rows \cap failed
                          ELSE d.changed_rows,
         attempted |-> [added |-> added, deleted |-> deleted, changed |-> changed],
         ok |-> (added \cup deleted \cup changed) \cap failed = {},
         exception |-> IF completed THEN None ELSE "TypeError"]

\* EditTagsDialog._apply.  all() stops at the first tab whose apply returns
\* False.  types_ok, tags_ok: what the apply of the tag types tab and of the
\* tags tab return when they hold modified rows.
\* Result: the dialog, the database and the exception that leaves _apply.
DialogApply(d, db, types_ok, tags_ok, failed, done) ==
    LET types == ~d.types_modified \/ types_ok
        r == TabApply(d, db, failed, done)
        tags == ~d.tags_modified \/ tags_ok
        d1 == [d EXCEPT !.types_modified = @ /\ ~types]
        d2 == [d1 EXCEPT !.added_rows = r.added_rows,
                         !.deleted_rows = r.deleted_rows,
                         !.changed_rows = r.changed_rows]
        d3 == [d2 EXCEPT !.tags_modified = @ /\ ~tags]
        saving_error == "dialog.edit_tags.error.saving"
        Log(called, failed_tabs, error_shown, apply_disabled) ==
            [called |-> TRUE, tabs |-> called, failed_tabs |-> failed_tabs,
             attempted |-> IF "compound" \in called THEN r.attempted
                           ELSE NoApply.attempted,
             failed |-> IF "compound" \in called THEN failed ELSE {},
             after |-> IF "compound" \in called
                       THEN [added |-> r.added_rows, deleted |-> r.deleted_rows,
                             changed |-> r.changed_rows]
                       ELSE [added |-> d.added_rows, deleted |-> d.deleted_rows,
                             changed |-> d.changed_rows],
             ok |-> IF "compound" \in called THEN r.ok ELSE TRUE,
             raised |-> "compound" \in called /\ r.exception # None,
             error_shown |-> error_shown, apply_disabled |-> apply_disabled]
    IN  IF ~types
        THEN [dialog |-> [d1 EXCEPT !.error = saving_error,
                                    !.apply_log = Log({"types"}, {"types"}, TRUE, FALSE)],
              db |-> db, exception |-> None]
        ELSE IF r.exception # None
        THEN [dialog |-> [d2 EXCEPT !.exception = r.exception,
                                    !.apply_log = Log({"types", "compound"}, {},
                                                      FALSE, FALSE)],
              db |-> r.db, exception |-> r.exception]
        ELSE IF ~r.ok
        THEN [dialog |-> [d2 EXCEPT !.error = saving_error,
                                    !.apply_log = Log({"types", "compound"},
                                                      {"compound"}, TRUE, FALSE)],
              db |-> r.db, exception |-> None]
        ELSE IF ~tags
        THEN [dialog |-> [d3 EXCEPT !.error = saving_error,
                                    !.apply_log = Log({"types", "compound", "tags"},
                                                      {"tags"}, TRUE, FALSE)],
              db |-> r.db, exception |-> None]
        ELSE [dialog |-> [d3 EXCEPT !.apply_enabled = FALSE,
                                    !.apply_log = Log({"types", "compound", "tags"},
                                                      {}, FALSE, TRUE)],
              db |-> r.db, exception |-> None]

\* What is left alone by the operations of the dialog
window_vars == <<input_text, keystrokes, search_btn_enabled, input_field_enabled,
                 search_thread, threads, popup, tabs, compiler, library, edit_dialog>>

\* Application._edit_tags: the dialog is created and shown (modal)
OpenEditTags ==
    /\ ~aborted
    /\ ~dialog.open
    /\ \E loaded \in {Some(AllTagsSorted(compound_db)), Nothing} :
           dialog' = [InitTab([ClosedDialog EXCEPT !.open = TRUE], loaded)
                         EXCEPT !.types = TagTypes,
                                !.ops = dialog.ops + 1,
                                !.simplify_calls = dialog.simplify_calls]
    /\ UNCHANGED <<window_vars, compound_db, aborted>>

\* EditTagsDialog._add_row on the compound tags tab: Tab.add_row, then
\* _check_integrity
AddRow ==
    /\ ~aborted
    /\ dialog.open
    /\ dialog' = CheckIntegrity(
           [dialog EXCEPT !.table = Append(@, AddedRow(dialog.dummy_type_id)),
                          !.added_rows = @ \cup {Len(dialog.table) + 1},
                          !.dummy_type_id = @ - 1,
                          !.ops = @ + 1],
           compound_db)
    /\ UNCHANGED <<window_vars, compound_db, aborted>>

\* The user edits the label (col 1) or the definition (col 2) of a row:
\* _TagsTab._cell_edited, whose cell_changed is _check_integrity.
\* self._values[row] raises IndexError for a row beyond the loaded values.
EditCell(row, col, text) ==
    /\ ~aborted
    /\ dialog.open
    /\ row \in DOMAIN dialog.table
    /\ ~dialog.table[row].hidden
    /\ CellText(dialog.table, row, col) # text
    /\ LET table == IF col = 1 THEN [dialog.table EXCEPT ![row].label = text]
                    ELSE [dialog.table EXCEPT ![row].definition = text]
           d1 == [dialog EXCEPT
                     !.table = table,
                     !.simplify_calls = IF col = 2 /\ ColumnParses(table)
                                        THEN @ \cup {ValidationSimplify} ELSE @,
                     !.ops = @ + 1]
           d2 == [d1 EXCEPT !.changed_rows =
                     IF GetValue(table, row) # dialog.values[row]
                     THEN @ \cup {row} ELSE @ \ {row}]
       IN  IF row \in dialog.added_rows
           THEN dialog' = CheckIntegrity(d1, compound_db) /\ UNCHANGED aborted
           ELSE IF row > Len(dialog.values)
           THEN /\ dialog' = [d1 EXCEPT !.exception = "IndexError"]
                /\ aborted' \in BOOLEAN
           ELSE dialog' = CheckIntegrity(d2, compound_db) /\ UNCHANGED aborted
    /\ UNCHANGED <<window_vars, compound_db>>

\* Tab.delete_selected_rows with the rows selected, the question answered
\* yes; rows_deleted is _check_integrity
DeleteSelectedRows(selected) ==
    /\ ~aborted
    /\ dialog.open
    /\ selected # {}
    /\ \A row \in selected : row \in DOMAIN dialog.table /\ ~dialog.table[row].hidden
    /\ dialog' = CheckIntegrity(
           [dialog EXCEPT
               !.deleted_rows = @ \cup (selected \ dialog.added_rows),
               !.changed_rows = @ \ selected,
               !.added_rows = @ \ selected,
               !.table = [r \in DOMAIN @ |->
                             IF r \in selected THEN [@[r] EXCEPT !.hidden = TRUE]
                             ELSE @[r]],
               !.ops = @ + 1],
           compound_db)
    /\ UNCHANGED <<window_vars, compound_db, aborted>>

\* The type combobox of a row is set to the type type (0: no type):
\* _combo_changed calls _cell_edited for the type column, which checks no
\* column
TypeComboChanged(row, type) ==
    /\ ~aborted
    /\ dialog.open
    /\ row \in DOMAIN dialog.table
    /\ ~dialog.table[row].hidden
    /\ type \in {0} \cup dialog.types
    /\ dialog.table[row].type # type
    /\ LET table == [dialog.table EXCEPT ![row].type = type]
           d1 == [dialog EXCEPT !.table = table, !.ops = @ + 1]
           d2 == [d1 EXCEPT !.changed_rows =
                     IF GetValue(table, row) # dialog.values[row]
                     THEN @ \cup {row} ELSE @ \ {row}]
       IN  IF row \in dialog.added_rows
           THEN dialog' = CheckIntegrity(d1, compound_db) /\ UNCHANGED aborted
           ELSE IF row > Len(dialog.values)
           THEN /\ dialog' = [d1 EXCEPT !.exception = "IndexError"]
                /\ aborted' \in BOOLEAN
           ELSE dialog' = CheckIntegrity(d2, compound_db) /\ UNCHANGED aborted
    /\ UNCHANGED <<window_vars, compound_db>>

\* Rows of the tag types tab are deleted: types_deleted (lines 37-39 of
\* _edit_tags_dialog.py) calls delete_types of the compound tags tab with the
\* types deleted_types.  delete_types walks every row of the table, the hidden
\* ones too: the combobox of a row whose type is deleted goes back to no type,
\* which calls _combo_changed and _cell_edited for that row.  Then
\* _delete_selected_row calls _check_integrity.
DeleteTypes(deleted_types) ==
    /\ ~aborted
    /\ dialog.open
    /\ deleted_types # {}
    /\ deleted_types \subseteq dialog.types
    /\ \A row \in DOMAIN dialog.table :
           dialog.table[row].type \in deleted_types =>
               (row \in dialog.added_rows \/ row <= Len(dialog.values))
    /\ LET reset == {row \in DOMAIN dialog.table :
                         dialog.table[row].type \in deleted_types}
           table == [row \in DOMAIN dialog.table |->
                        IF row \in reset THEN [dialog.table[row] EXCEPT !.type = 0]
                        ELSE dialog.table[row]]
           edited == reset \ dialog.added_rows
           differ == {row \in edited : GetValue(table, row) # dialog.values[row]}
       IN  dialog' = CheckIntegrity(
               [dialog EXCEPT !.table = table,
                              !.changed_rows = (@ \ edited) \cup differ,
                              !.types = @ \ deleted_types,
                              !.types_modified = TRUE,
                              !.ops = @ + 1],
               compound_db)
    /\ UNCHANGED <<window_vars, compound_db, aborted>>

\* A cell of the tag types tab is edited; valid is what the check_integrity of
\* that tab returns afterwards (type_cell_changed calls _check_integrity)
EditTypesTab(valid) ==
    /\ ~aborted
    /\ dialog.open
    /\ dialog' = CheckIntegrity([dialog EXCEPT !.types_valid = valid,
                                               !.types_modified = TRUE,
                                               !.ops = @ + 1],
                                compound_db)
    /\ UNCHANGED <<window_vars, compound_db, aborted>>

\* A cell of the tags tab is edited
EditTagsTab(valid) ==
    /\ ~aborted
    /\ dialog.open
    /\ dialog' = CheckIntegrity([dialog EXCEPT !.tags_valid = valid,
                                               !.tags_modified = TRUE,
                                               !.ops = @ + 1],
                                compound_db)
    /\ UNCHANGED <<window_vars, compound_db, aborted>>

\* The outcomes of the DAO calls of one _apply: the rows whose call returns
\* False, and the rows handled before get_value meets a row the table lacks
ApplyOutcomes(d) ==
    LET tracked == d.added_rows \cup d.deleted_rows \cup d.changed_rows
        stale == tracked \ DOMAIN d.table
    IN  {[failed |-> f, done |-> g] :
            f \in SUBSET (tracked \cap DOMAIN d.table),
            g \in IF stale = {} THEN {{}} ELSE SUBSET (tracked \cap DOMAIN d.table)}

\* The Apply button (apply of _init_buttons): _apply, then _init_tabs, which
\* loads every table again
ApplyClicked ==
    /\ ~aborted
    /\ dialog.open
    /\ dialog.apply_enabled
    /\ \E types_ok \in BOOLEAN, tags_ok \in BOOLEAN, o \in ApplyOutcomes(dialog) :
           LET r == DialogApply([dialog EXCEPT !.ops = @ + 1], compound_db,
                                types_ok, tags_ok, o.failed, o.done)
           IN  /\ compound_db' = r.db
               /\ IF r.exception # None
                  THEN dialog' = r.dialog /\ aborted' \in BOOLEAN
                  ELSE /\ \E loaded \in {Some(AllTagsSorted(r.db)), Nothing} :
                              dialog' = InitTab([r.dialog EXCEPT !.types_valid = TRUE,
                                                                 !.tags_valid = TRUE],
                                                loaded)
                       /\ UNCHANGED aborted
    /\ UNCHANGED window_vars

\* The OK button: _apply when _is_valid, then the dialog closes
OkClicked ==
    /\ ~aborted
    /\ dialog.open
    /\ dialog.ok_enabled
    /\ \E types_ok \in BOOLEAN, tags_ok \in BOOLEAN, o \in ApplyOutcomes(dialog) :
           LET r == DialogApply([dialog EXCEPT !.ops = @ + 1], compound_db,
                                types_ok, tags_ok, o.failed, o.done)
           IN  IF dialog.valid
               THEN /\ compound_db' = r.db
                    /\ IF r.exception # None
                       THEN dialog' = r.dialog /\ aborted' \in BOOLEAN
                       ELSE /\ dialog' = [ClosedDialog EXCEPT
                                              !.ops = r.dialog.ops,
                                              !.simplify_calls = dialog.simplify_calls]
                            /\ UNCHANGED aborted
               ELSE /\ dialog' = [dialog EXCEPT !.ops = @ + 1]
                    /\ UNCHANGED <<compound_db, aborted>>
    /\ UNCHANGED window_vars

\* The Cancel button: the dialog closes, nothing is applied
CancelClicked ==
    /\ ~aborted
    /\ dialog.open
    /\ dialog' = [ClosedDialog EXCEPT !.ops = dialog.ops,
                                       !.simplify_calls = dialog.simplify_calls]
    /\ UNCHANGED <<window_vars, compound_db, aborted>>

(***************************************************************************)
(* The images: the records of the database and the files (application.py,  *)
(* _delete_images and _rename_image), and the EditImageDialog              *)
(* (src/app/gui/dialogs/edit_image_dialog.py).  A path is a number; db[i]  *)
(* is the path of the record of image i, 0 when the image has no record;   *)
(* disk[p] is the image whose file is at path p, 0 when there is no file.  *)
(***************************************************************************)

\* No operation on the images yet
NoOperation == [op |-> "none"]

\* The window before any image is known.  error is the last error popup of
\* the two operations, last what the last of them did, ops their number.
EmptyLibrary ==
    [db |-> <<>>, disk |-> <<>>, error |-> None, last |-> NoOperation, ops |-> 0]

\* EditImageDialog.__init__ (lines 39-41) for a dialog that is not on screen.
\* images is len(self._images); skip_enabled is the state of the Skip button
\* when there is one; last is what the last click did.
ClosedEditImageDialog ==
    [open |-> FALSE, index |-> -1, images |-> 0, show_skip |-> FALSE,
     skip_enabled |-> FALSE, ok_text |-> "OK", exception |-> None, error |-> None,
     last |-> NoOperation, ops |-> 0]

\* The images when the window opens: the images 1 and 2 have their files at
\* the paths 1 and 2; path 3 is free or holds a file that is no image of the
\* database
Libraries ==
    {[EmptyLibrary EXCEPT !.db = <<1, 2>>, !.disk = <<1, 2, other>>] :
        other \in {0, 3}}

(***************************************************************************)
(* Application                                                             *)
(***************************************************************************)

Init ==
    /\ input_text = <<>>
    /\ keystrokes = 0
    /\ search_btn_enabled = TRUE
    /\ input_field_enabled = TRUE
    /\ search_thread = 0
    /\ threads = <<>>
    /\ compound_db \in Tables
    /\ popup = None
    /\ tabs = EmptyTabs
    /\ aborted = FALSE
    /\ dialog = ClosedDialog
    /\ compiler = IdleCompiler
    /\ library = EmptyLibrary
    /\ edit_dialog = ClosedEditImageDialog

SearchInit ==
    /\ input_text = <<>>
    /\ keystrokes = 0
    /\ search_btn_enabled = TRUE
    /\ input_field_enabled = TRUE
    /\ search_thread = 0
    /\ threads = <<>>
    /\ compound_db \in SearchTables
    /\ popup = None
    /\ tabs = EmptyTabs
    /\ aborted = FALSE
    /\ dialog = ClosedDialog
    /\ compiler = IdleCompiler
    /\ library = EmptyLibrary
    /\ edit_dialog = ClosedEditImageDialog

\* The thread has been started and its run has not ended
Running(th) == th.pc \notin {"finished", "delivered", "raised"}

\* The user edits the enabled query field: tok is appended
TypeToken(tok, max) ==
    /\ ~aborted
    /\ input_field_enabled
    /\ keystrokes < max
    /\ input_text' = input_text \o tok
    /\ keystrokes' = keystrokes + 1
    /\ UNCHANGED <<search_btn_enabled, input_field_enabled, search_thread, threads,
                   compound_db, popup, tabs, aborted, dialog, compiler, library,
                   edit_dialog>>

\* Application._fetch_images.  Assigning self._search_thread drops the only
\* reference to the previous thread object: when that thread is still running,
\* Qt either terminates the process (a QThread destroyed while running) or,
\* where the object outlives the assignment, both threads go on.  The callers
\* say what becomes of library and edit_dialog.
FetchImages(tagless_images) ==
    LET tags == Strip(input_text)
    IN  IF Len(tags) > 0 \/ tagless_images
        THEN /\ search_btn_enabled' = FALSE
             /\ input_field_enabled' = FALSE
             /\ \/ /\ threads' = Append(threads, NewThread(tags, tagless_images))
                   /\ search_thread' = Len(threads) + 1
                   /\ aborted' = FALSE
                \/ /\ search_thread # 0
                   /\ Running(threads[search_thread])
                   /\ aborted' = TRUE
                   /\ UNCHANGED <<threads, search_thread>>
             /\ UNCHANGED <<input_text, keystrokes, compound_db, popup, tabs, dialog,
                            compiler>>
        ELSE UNCHANGED <<input_text, keystrokes, search_btn_enabled,
                         input_field_enabled, search_thread, threads, compound_db,
                         popup, tabs, aborted, dialog, compiler>>

\* The search button is clicked (line 73)
SearchClicked ==
    /\ ~aborted
    /\ search_btn_enabled
    /\ FetchImages(FALSE)
    /\ UNCHANGED <<library, edit_dialog>>

\* Return is pressed in the query field (line 77)
ReturnPressed ==
    /\ ~aborted
    /\ input_field_enabled
    /\ FetchImages(FALSE)
    /\ UNCHANGED <<library, edit_dialog>>

\* Tools > tagless images (lines 186-190)
TaglessMenu ==
    /\ ~aborted
    /\ FetchImages(TRUE)
    /\ UNCHANGED <<library, edit_dialog>>

\* A move, operations, SQL, settings or edit-image dialog is closed
\* (set_on_close_action of lines 229-250, 302, 340, 365)
DialogClosed ==
    /\ ~aborted
    /\ FetchImages(FALSE)
    /\ UNCHANGED <<library, edit_dialog>>

\* images.sort(key=path) on a list of at most two images
SortImages(list) ==
    IF Len(list) = 2 /\ list[1] > list[2] THEN <<list[2], list[1]>> ELSE list

\* Application._on_fetch_done, run for the finished signal of thread t; it
\* reads self._search_thread.  load_thumbs: config.CONFIG.load_thumbnails and
\* the answer to the threshold question.
OnFetchDone(t, load_thumbs) ==
    /\ ~aborted
    /\ threads[t].pc = "finished"
    /\ LET cur == threads[search_thread]
           images == SortImages(cur.images.list)
       IN  IF Failed(cur)
           THEN /\ popup' = cur.error
                /\ threads' = [threads EXCEPT ![t].pc = "delivered"]
                /\ UNCHANGED tabs
           ELSE /\ threads' = [threads EXCEPT ![t].pc = "delivered",
                                              ![search_thread].images = Some(images)]
                /\ tabs' = [paths |-> images, paths_nb |-> Len(images),
                            thumbs |-> IF load_thumbs THEN images ELSE <<>>,
                            thumbs_nb |-> IF load_thumbs THEN Len(images) ELSE 0]
                /\ UNCHANGED popup
    /\ search_btn_enabled' = TRUE
    /\ input_field_enabled' = TRUE
    /\ UNCHANGED <<input_text, keystrokes, search_thread, compound_db, aborted,
                   dialog, compiler, library, edit_dialog>>

\* The tags dialog commits its changes to the database (add_compound_tag,
\* delete_tag, update_tag of _TagsTab.apply): the compound-tag table becomes table
ApplyCompoundTags(table) ==
    /\ ~aborted
    /\ table # compound_db
    /\ compound_db' = table
    /\ UNCHANGED <<input_text, keystrokes, search_btn_enabled, input_field_enabled,
                   search_thread, threads, popup, tabs, aborted, dialog, compiler,
                   library, edit_dialog>>

(***************************************************************************)
(* _SearchThread.run, one action per step of thread t                      *)
(***************************************************************************)

\* An exception leaves run: PyQt terminates the process, or (older PyQt) the
\* thread ends and emits finished
Raise(t, th, exception) ==
    \/ /\ threads' = [threads EXCEPT ![t] = [th EXCEPT !.exception = exception,
                                                       !.pc = "raised"]]
       /\ aborted' = TRUE
    \/ /\ threads' = [threads EXCEPT ![t] = [th EXCEPT !.exception = exception,
                                                       !.pc = "finished"]]
       /\ aborted' = FALSE

\* lines 618-620
RunBegin(t) ==
    /\ ~aborted
    /\ threads[t].pc = "run"
    /\ threads' = [threads EXCEPT ![t] =
           [@ EXCEPT !.pc = RunEntry(threads[t].tagless_images),
                     !.calls = IF RunEntry(threads[t].tagless_images) = "protect"
                               THEN Append(@, "protect") ELSE @]]
    /\ UNCHANGED <<app_vars, aborted>>

\* lines 643-647, one iteration
Protect(t) ==
    /\ ~aborted
    /\ threads[t].pc = "protect"
    /\ threads' = [threads EXCEPT ![t] = ProtectIter(@)]
    /\ UNCHANGED <<app_vars, aborted>>

\* lines 650-653: the compound tags are read, or the read fails
GetAllTags(t) ==
    /\ ~aborted
    /\ threads[t].pc = "get_all_tags"
    /\ \E result \in {Some(compound_db), Nothing} :
           threads' = [threads EXCEPT ![t] =
               [@ EXCEPT !.compound_tags = result,
                         !.previous_query = <<>>,
                         !.depth = 0,
                         !.calls = Append(@, "get_all_tags"),
                         !.pc = "expand"]]
    /\ UNCHANGED <<app_vars, aborted>>

\* lines 655-662, one evaluation of the loop condition and one pass
ExpandPass(t) ==
    /\ ~aborted
    /\ threads[t].pc = "expand"
    /\ LET th == threads[t]
           tags == LoopTags(th.compound_tags, compound_db)
           pass == ForTags(tags.list, 1, th.query)
           depth == th.depth + 1
           before == [th EXCEPT !.previous_query = th.query]
       IN  IF th.query = th.previous_query
           THEN /\ threads' = [threads EXCEPT ![t].pc = "restore"]
                /\ UNCHANGED aborted
           ELSE IF tags.none
           THEN Raise(t, before, "TypeError")
           ELSE IF pass.raised
           THEN Raise(t, [before EXCEPT !.query = pass.query], "re.error")
           ELSE /\ threads' = [threads EXCEPT ![t] =
                       [before EXCEPT !.query = pass.query,
                                      !.depth = depth,
                                      !.error = IF DepthReached(depth)
                                                THEN MaxRecursionMsg ELSE @,
                                      !.pc = IF DepthReached(depth)
                                             THEN "check_error" ELSE "expand"]]
                /\ UNCHANGED aborted
    /\ UNCHANGED app_vars

\* lines 665-666
Restore(t) ==
    /\ ~aborted
    /\ threads[t].pc = "restore"
    /\ threads' = [threads EXCEPT ![t] =
           [@ EXCEPT !.query = RestoreFrom(@, threads[t].meta_tag_values, 1),
                     !.calls = Append(@, "restore"),
                     !.pc = "check_error"]]
    /\ UNCHANGED <<app_vars, aborted>>

\* line 622
CheckError(t) ==
    /\ ~aborted
    /\ threads[t].pc = "check_error"
    /\ threads' = [threads EXCEPT ![t].pc =
           IF ~NoError(threads[t].error) THEN "finished"
           ELSE IF threads[t].tagless_images THEN "get_images" ELSE "parse"]
    /\ UNCHANGED <<app_vars, aborted>>

\* lines 624-628: queries.query_to_sympy returns or raises ValueError
Parse(t) ==
    /\ ~aborted
    /\ threads[t].pc = "parse"
    /\ \E ok \in BOOLEAN :
           threads' = [threads EXCEPT ![t] =
               [@ EXCEPT !.calls = Append(@, "query_to_sympy"),
                         !.simplify_calls = @ \cup {SearchSimplify},
                         !.error = IF ok THEN @ ELSE SyntaxErrorMsg,
                         !.pc = IF ok THEN "get_images" ELSE "finished"]]
    /\ UNCHANGED <<app_vars, aborted>>

\* lines 630-636
GetImages(t) ==
    /\ ~aborted
    /\ threads[t].pc = "get_images"
    /\ \E result \in ImageResults :
           threads' = [threads EXCEPT ![t] =
               [@ EXCEPT !.calls = Append(@, IF threads[t].tagless_images
                                             THEN "get_tagless_images"
                                             ELSE "get_images"),
                         !.images = result,
                         !.error = IF result.none THEN ImageLoadingMsg ELSE @,
                         !.pc = "finished"]]
    /\ UNCHANGED <<app_vars, aborted>>

(***************************************************************************)
(* Application._delete_images and Application._rename_image                *)
(***************************************************************************)

\* What _delete_images and _rename_image leave alone apart from what
\* _fetch_images changes
UnchangedBySearch ==
    UNCHANGED <<input_text, keystrokes, search_btn_enabled, input_field_enabled,
                search_thread, threads, compound_db, popup, tabs, aborted, dialog,
                compiler>>

\* The file goes whenever disk deletion was chosen
UnlinksWhenAsked(ok, delete_from_disk) == delete_from_disk

\* line 386: the file of an item is unlinked
Unlinks(ok, delete_from_disk) == ok /\ delete_from_disk

\* Application._delete_images with the images selected selected.  delete: the
\* answer to the confirmation dialog; from_disk: its disk deletion box;
\* deleted: the items whose delete_image returns True; unlink_failed: the items
\* whose unlink raises OSError (a missing file raises as well).
DeleteImages(selected, delete, from_disk, deleted, unlink_failed) ==
    /\ ~aborted
    /\ selected # {}
    /\ \A i \in selected : i \in DOMAIN library.db /\ library.db[i] # 0
    /\ LET delete_from_disk == delete /\ from_disk
           unlinks == {i \in selected : Unlinks(i \in deleted, delete_from_disk)}
           errors == {i \in unlinks :
                         i \in unlink_failed \/ library.disk[library.db[i]] = 0}
           gone == {library.db[i] : i \in unlinks \ errors}
       IN  IF ~delete
           THEN /\ library' = [library EXCEPT
                       !.last = [op |-> "delete", selected |-> selected,
                                 confirmed |-> FALSE, from_disk |-> FALSE,
                                 records |-> {}, errors |-> {}],
                       !.ops = @ + 1]
                /\ UnchangedBySearch
           ELSE /\ library' = [library EXCEPT
                       !.db = [i \in DOMAIN @ |-> IF i \in deleted THEN 0 ELSE @[i]],
                       !.disk = [p \in DOMAIN @ |-> IF p \in gone THEN 0 ELSE @[p]],
                       !.error = IF errors # {} THEN "popup.delete_image_error.text"
                                 ELSE @,
                       !.last = [op |-> "delete", selected |-> selected,
                                 confirmed |-> TRUE, from_disk |-> delete_from_disk,
                                 records |-> deleted, errors |-> errors],
                       !.ops = @ + 1]
                /\ FetchImages(FALSE)
    /\ UNCHANGED edit_dialog

\* Application._rename_image of the image id to the path new_path (the name
\* typed differs from the old one).  update_ok: what update_image returns;
\* overwrite: the answer to the overwrite question; rename_ok: Path.rename does
\* not raise OSError (it raises when the file is missing); rollback_ok: what
\* the update_image of the rollback returns.
RenameImage(id, new_path, update_ok, overwrite, rename_ok, rollback_ok) ==
    /\ ~aborted
    /\ id \in DOMAIN library.db
    /\ library.db[id] # 0
    /\ new_path \in DOMAIN library.disk
    /\ new_path # library.db[id]
    /\ LET old == library.db[id]
           exists == library.disk[new_path] # 0
           rename == ~exists \/ overwrite
           moved == rename_ok /\ library.disk[old] # 0
           Last(updated, renamed) ==
               [op |-> "rename", id |-> id, old |-> old, new |-> new_path,
                updated |-> updated, exists |-> exists, rename |-> rename,
                renamed |-> renamed,
                rollback_failed |-> updated /\ rename /\ ~renamed /\ ~rollback_ok]
       IN  IF ~update_ok
           THEN /\ library' = [library EXCEPT
                       !.error = "popup.rename_error.text",
                       !.last = Last(FALSE, FALSE),
                       !.ops = @ + 1]
                /\ UnchangedBySearch
           ELSE IF ~rename
           THEN /\ library' = [library EXCEPT
                       !.db[id] = new_path,
                       !.last = Last(TRUE, FALSE),
                       !.ops = @ + 1]
                /\ UnchangedBySearch
           ELSE IF moved
           THEN /\ library' = [library EXCEPT
                       !.db[id] = new_path,
                       !.disk = [@ EXCEPT ![new_path] = library.disk[old],
                                          ![old] = 0],
                       !.last = Last(TRUE, TRUE),
                       !.ops = @ + 1]
                /\ FetchImages(FALSE)
           ELSE /\ library' = [library EXCEPT
                       !.db[id] = IF rollback_ok THEN old ELSE new_path,
                       !.error = "popup.rename_file_error.text",
                       !.last = Last(TRUE, FALSE),
                       !.ops = @ + 1]
                /\ FetchImages(FALSE)
    /\ UNCHANGED edit_dialog

(***************************************************************************)
(* EditImageDialog                                                         *)
(***************************************************************************)

\* What the EditImageDialog leaves alone while it stays open
edit_rest == <<input_text, keystrokes, search_btn_enabled, input_field_enabled,
               search_thread, threads, compound_db, popup, tabs, aborted, dialog,
               compiler, library>>

\* The Skip button stays enabled on the last image
OnLastImageNever(index, images) == FALSE

\* line 179: the current image is the last one
OnLastImage(index, images) == index = images - 1

\* EditImageDialog._set(self._index) (lines 158-184): the image at the index is
\* shown (IndexError beyond the list); with a Skip button, the button is
\* disabled on the last image and the OK button reads Finish or Next
Set(d) ==
    IF d.index >= d.images THEN [d EXCEPT !.exception = "IndexError"]
    ELSE IF ~d.show_skip THEN d
    ELSE IF OnLastImage(d.index, d.images)
    THEN [d EXCEPT !.skip_enabled = FALSE, !.ok_text = "Finish"]
    ELSE [d EXCEPT !.ok_text = "Next"]

\* A dialog is created (the Skip button is enabled when there is one) and
\* set_images (lines 136-147) hands it images images
SetImages(images, show_skip) ==
    /\ ~aborted
    /\ ~edit_dialog.open
    /\ edit_dialog' = Set([ClosedEditImageDialog EXCEPT
                              !.open = TRUE, !.index = 0, !.images = images,
                              !.show_skip = show_skip, !.skip_enabled = show_skip,
                              !.last = [op |-> "set_images"],
                              !.ops = edit_dialog.ops + 1])
    /\ UNCHANGED edit_rest

\* The Skip button: _next (lines 186-188)
SkipClicked ==
    /\ ~aborted
    /\ edit_dialog.open
    /\ edit_dialog.exception = None
    /\ edit_dialog.show_skip
    /\ edit_dialog.skip_enabled
    /\ edit_dialog' = Set([edit_dialog EXCEPT !.index = @ + 1,
                                              !.last = [op |-> "skip"],
                                              !.ops = @ + 1])
    /\ UNCHANGED edit_rest

\* The OK button with valid tags: _apply (lines 241-264).  ok: what _add,
\* _edit or _replace returns.  When _apply returns True the dialog closes and
\* its close action fetches the images again (application.py, lines 302, 365).
EditImageOk(ok) ==
    /\ ~aborted
    /\ edit_dialog.open
    /\ edit_dialog.exception = None
    /\ LET close == ok /\ edit_dialog.index = edit_dialog.images - 1
           last == [op |-> "ok", ok |-> ok, close |-> close]
       IN  IF ~ok
           THEN /\ edit_dialog' = [edit_dialog EXCEPT
                       !.error = "Could not apply changes!",
                       !.last = last, !.ops = @ + 1]
                /\ UNCHANGED edit_rest
           ELSE IF ~close
           THEN /\ edit_dialog' = Set([edit_dialog EXCEPT !.index = @ + 1,
                                                          !.last = last,
                                                          !.ops = @ + 1])
                /\ UNCHANGED edit_rest
           ELSE /\ edit_dialog' = [edit_dialog EXCEPT !.open = FALSE,
                                                      !.last = last,
                                                      !.ops = @ + 1]
                /\ FetchImages(FALSE)
                /\ UNCHANGED library

(***************************************************************************)
(* Specifications                                                          *)
(***************************************************************************)

\* The main window: any interleaving of user actions and search threads
Next ==
    \/ \E tok \in Tokens : TypeToken(tok, MaxTokens)
    \/ Len(threads) < MaxThreads /\ SearchClicked
    \/ Len(threads) < MaxThreads /\ ReturnPressed
    \/ Len(threads) < MaxThreads /\ TaglessMenu
    \/ Len(threads) < MaxThreads /\ DialogClosed
    \/ \E t \in DOMAIN threads : RunBegin(t)
    \/ \E t \in DOMAIN threads : Protect(t)
    \/ \E t \in DOMAIN threads : GetAllTags(t)
    \/ \E t \in DOMAIN threads : ExpandPass(t)
    \/ \E t \in DOMAIN threads : Restore(t)
    \/ \E t \in DOMAIN threads : CheckError(t)
    \/ \E t \in DOMAIN threads : Parse(t)
    \/ \E t \in DOMAIN threads : GetImages(t)
    \/ \E t \in DOMAIN threads : \E load_thumbs \in BOOLEAN : OnFetchDone(t, load_thumbs)

Spec == Init /\ [][Next]_vars

\* One search, from the typing of the query to the display of its result
SearchNext ==
    \/ threads = <<>> /\ \E tok \in SearchTokens : TypeToken(tok, SearchMaxTokens)
    \/ threads = <<>> /\ SearchClicked
    \/ threads = <<>> /\ TaglessMenu
    \/ \E t \in DOMAIN threads : RunBegin(t)
    \/ \E t \in DOMAIN threads : Protect(t)
    \/ \E t \in DOMAIN threads : GetAllTags(t)
    \/ \E t \in DOMAIN threads : ExpandPass(t)
    \/ \E t \in DOMAIN threads : Restore(t)
    \/ \E t \in DOMAIN threads : CheckError(t)
    \/ \E t \in DOMAIN threads : Parse(t)
    \/ \E t \in DOMAIN threads : GetImages(t)
    \/ \E t \in DOMAIN threads : \E load_thumbs \in BOOLEAN : OnFetchDone(t, load_thumbs)

SearchSpec == SearchInit /\ [][SearchNext]_vars

\* One search over compound tags whose definitions hold delimited values
DefinitionsInit ==
    /\ input_text = <<>>
    /\ keystrokes = 0
    /\ search_btn_enabled = TRUE
    /\ input_field_enabled = TRUE
    /\ search_thread = 0
    /\ threads = <<>>
    /\ compound_db \in DefinitionsTables
    /\ popup = None
    /\ tabs = EmptyTabs
    /\ aborted = FALSE
    /\ dialog = ClosedDialog
    /\ compiler = IdleCompiler
    /\ library = EmptyLibrary
    /\ edit_dialog = ClosedEditImageDialog

DefinitionsSpec == DefinitionsInit /\ [][SearchNext]_vars

\* One search under the Qt event loop: a started thread runs on and a queued
\* finished signal is delivered, as long as the process lives
SearchLiveNext ==
    \/ threads = <<>> /\ \E tok \in {TOK_L, TOK_SPACE} : TypeToken(tok, SearchMaxTokens)
    \/ threads = <<>> /\ SearchClicked
    \/ threads = <<>> /\ TaglessMenu
    \/ \E t \in DOMAIN threads : RunBegin(t)
    \/ \E t \in DOMAIN threads : Protect(t)
    \/ \E t \in DOMAIN threads : GetAllTags(t)
    \/ \E t \in DOMAIN threads : ExpandPass(t)
    \/ \E t \in DOMAIN threads : Restore(t)
    \/ \E t \in DOMAIN threads : CheckError(t)
    \/ \E t \in DOMAIN threads : Parse(t)
    \/ \E t \in DOMAIN threads : GetImages(t)
    \/ \E t \in DOMAIN threads : \E load_thumbs \in BOOLEAN : OnFetchDone(t, load_thumbs)

SearchLiveInit == SearchInit /\ compound_db \in {TABLE_EMPTY, TABLE_ACYCLIC}

SearchLiveSpec ==
    /\ SearchLiveInit
    /\ [][SearchLiveNext]_vars
    /\ WF_vars(SearchLiveNext)

\* One search while the tags dialog commits changes of the compound tags
SnapshotNext ==
    \/ threads = <<>> /\ \E tok \in Tokens : TypeToken(tok, MaxTokens)
    \/ threads = <<>> /\ SearchClicked
    \/ \E table \in SearchTables : ApplyCompoundTags(table)
    \/ \E t \in DOMAIN threads : RunBegin(t)
    \/ \E t \in DOMAIN threads : Protect(t)
    \/ \E t \in DOMAIN threads : GetAllTags(t)
    \/ \E t \in DOMAIN threads : ExpandPass(t)
    \/ \E t \in DOMAIN threads : Restore(t)
    \/ \E t \in DOMAIN threads : CheckError(t)
    \/ \E t \in DOMAIN threads : Parse(t)
    \/ \E t \in DOMAIN threads : GetImages(t)
    \/ \E t \in DOMAIN threads : \E load_thumbs \in BOOLEAN : OnFetchDone(t, load_thumbs)

SnapshotSpec == SearchInit /\ [][SnapshotNext]_vars

\* Searches one after the other (the search button is disabled while a search
\* runs) while the tags dialog commits changes of the compound tags
SearchesNext ==
    \/ threads = <<>> /\ \E tok \in Tokens : TypeToken(tok, MaxTokens)
    \/ Len(threads) < MaxThreads /\ SearchClicked
    \/ \E table \in SearchesTables : ApplyCompoundTags(table)
    \/ \E t \in DOMAIN threads : RunBegin(t)
    \/ \E t \in DOMAIN threads : Protect(t)
    \/ \E t \in DOMAIN threads : GetAllTags(t)
    \/ \E t \in DOMAIN threads : ExpandPass(t)
    \/ \E t \in DOMAIN threads : Restore(t)
    \/ \E t \in DOMAIN threads : CheckError(t)
    \/ \E t \in DOMAIN threads : Parse(t)
    \/ \E t \in DOMAIN threads : GetImages(t)
    \/ \E t \in DOMAIN threads : \E load_thumbs \in BOOLEAN : OnFetchDone(t, load_thumbs)

SearchesInit ==
    /\ input_text = <<>>
    /\ keystrokes = 0
    /\ search_btn_enabled = TRUE
    /\ input_field_enabled = TRUE
    /\ search_thread = 0
    /\ threads = <<>>
    /\ compound_db \in SearchesTables
    /\ popup = None
    /\ tabs = EmptyTabs
    /\ aborted = FALSE
    /\ dialog = ClosedDialog
    /\ compiler = IdleCompiler
    /\ library = EmptyLibrary
    /\ edit_dialog = ClosedEditImageDialog

SearchesSpec == SearchesInit /\ [][SearchesNext]_vars

DialogInit ==
    /\ input_text \in Tokens
    /\ keystrokes = 0
    /\ search_btn_enabled = TRUE
    /\ input_field_enabled = TRUE
    /\ search_thread = 0
    /\ threads = <<>>
    /\ compound_db \in DialogTables
    /\ popup = None
    /\ tabs = EmptyTabs
    /\ aborted = FALSE
    /\ dialog = ClosedDialog
    /\ compiler = IdleCompiler
    /\ library = EmptyLibrary
    /\ edit_dialog = ClosedEditImageDialog

\* The tags dialog, and one search once it is closed
DialogNext ==
    \/ dialog.ops < MaxDialogOps /\ OpenEditTags
    \/ dialog.ops < MaxDialogOps /\ Len(dialog.table) < MaxRows /\ AddRow
    \/ /\ dialog.ops < MaxDialogOps
       /\ \E row \in 1..MaxRows : \E text \in LabelTexts : EditCell(row, 1, text)
    \/ /\ dialog.ops < MaxDialogOps
       /\ \E row \in 1..MaxRows : \E text \in DefinitionTexts : EditCell(row, 2, text)
    \/ /\ dialog.ops < MaxDialogOps
       /\ \E selected \in SUBSET (1..MaxRows) : DeleteSelectedRows(selected)
    \/ dialog.ops < MaxDialogOps /\ \E valid \in BOOLEAN : EditTypesTab(valid)
    \/ dialog.ops < MaxDialogOps /\ \E valid \in BOOLEAN : EditTagsTab(valid)
    \/ dialog.ops < MaxDialogOps /\ ApplyClicked
    \/ dialog.ops < MaxDialogOps /\ OkClicked
    \/ CancelClicked
    \/ threads = <<>> /\ ~dialog.open /\ dialog.ops > 0 /\ SearchClicked
    \/ \E t \in DOMAIN threads : RunBegin(t)
    \/ \E t \in DOMAIN threads : Protect(t)
    \/ \E t \in DOMAIN threads : GetAllTags(t)
    \/ \E t \in DOMAIN threads : ExpandPass(t)
    \/ \E t \in DOMAIN threads : Restore(t)
    \/ \E t \in DOMAIN threads : CheckError(t)
    \/ \E t \in DOMAIN threads : Parse(t)
    \/ \E t \in DOMAIN threads : GetImages(t)
    \/ \E t \in DOMAIN threads : \E load_thumbs \in BOOLEAN : OnFetchDone(t, load_thumbs)

DialogSpec == DialogInit /\ [][DialogNext]_vars

\* The rows of the compound tags tab and the tag types are edited and deleted,
\* nothing is applied
TypesInit ==
    /\ input_text = <<>>
    /\ keystrokes = 0
    /\ search_btn_enabled = TRUE
    /\ input_field_enabled = TRUE
    /\ search_thread = 0
    /\ threads = <<>>
    /\ compound_db \in TypesTables
    /\ popup = None
    /\ tabs = EmptyTabs
    /\ aborted = FALSE
    /\ dialog = ClosedDialog
    /\ compiler = IdleCompiler
    /\ library = EmptyLibrary
    /\ edit_dialog = ClosedEditImageDialog

TypesNext ==
    \/ dialog.ops < MaxTypesOps /\ OpenEditTags
    \/ dialog.ops < MaxTypesOps /\ Len(dialog.table) < MaxRows /\ AddRow
    \/ /\ dialog.ops < MaxTypesOps
       /\ \E row \in 1..MaxRows : \E text \in LabelTexts : EditCell(row, 1, text)
    \/ /\ dialog.ops < MaxTypesOps
       /\ \E row \in 1..MaxRows : \E type \in {0} \cup TagTypes :
              TypeComboChanged(row, type)
    \/ /\ dialog.ops < MaxTypesOps
       /\ \E selected \in SUBSET (1..MaxRows) : DeleteSelectedRows(selected)
    \/ /\ dialog.ops < MaxTypesOps
       /\ \E deleted_types \in SUBSET TagTypes : DeleteTypes(deleted_types)

TypesSpec == TypesInit /\ [][TypesNext]_vars

\* The tags dialog alone, over a database of two compound tags and over longer
\* runs of operations: rows are added, edited and deleted, and Apply is clicked
ApplyInit ==
    /\ input_text = <<>>
    /\ keystrokes = 0
    /\ search_btn_enabled = TRUE
    /\ input_field_enabled = TRUE
    /\ search_thread = 0
    /\ threads = <<>>
    /\ compound_db \in ApplyTables
    /\ popup = None
    /\ tabs = EmptyTabs
    /\ aborted = FALSE
    /\ dialog = ClosedDialog
    /\ compiler = IdleCompiler
    /\ library = EmptyLibrary
    /\ edit_dialog = ClosedEditImageDialog

ApplyNext ==
    \/ dialog.ops < MaxApplyOps /\ OpenEditTags
    \/ dialog.ops < MaxApplyOps /\ Len(dialog.table) < MaxRows /\ AddRow
    \/ /\ dialog.ops < MaxApplyOps
       /\ \E row \in 1..MaxRows : \E text \in ApplyDefinitionTexts :
              EditCell(row, 2, text)
    \/ /\ dialog.ops < MaxApplyOps
       /\ \E selected \in SUBSET (1..MaxRows) : DeleteSelectedRows(selected)
    \/ dialog.ops < MaxApplyOps /\ ApplyClicked
    \/ CancelClicked

ApplySpec == ApplyInit /\ [][ApplyNext]_vars

(***************************************************************************)
(* The compiler and the matcher on their own                               *)
(***************************************************************************)

\* What the compiler leaves alone
compiler_rest == <<input_text, keystrokes, search_btn_enabled, input_field_enabled,
                   search_thread, threads, compound_db, popup, tabs, aborted,
                   dialog, library, edit_dialog>>

\* queries.query_to_sympy(query, simplify=False): the parser alone
Compile(query) ==
    /\ compiler.pc = "idle"
    /\ LET r == QueryToSympy(query, FALSE)
       IN  compiler' = [compiler EXCEPT !.query = query,
                                        !.expr = r.expr,
                                        !.pc = IF r.ok THEN "parsed" ELSE "rejected"]
    /\ UNCHANGED compiler_rest

\* The expression becomes the And or the Or of itself and a literal
Join(kind, literal) ==
    /\ compiler.pc = "parsed"
    /\ compiler' = [compiler EXCEPT
                       !.expr = IF kind = "and" THEN And(<<@, literal>>)
                                ELSE Or(<<@, literal>>),
                       !.steps = @ + 1]
    /\ UNCHANGED compiler_rest

\* The expression becomes the And or the Or of itself and itself
Twice(kind) ==
    /\ compiler.pc = "parsed"
    /\ compiler' = [compiler EXCEPT
                       !.expr = IF kind = "and" THEN And(<<@, @>>) ELSE Or(<<@, @>>),
                       !.steps = @ + 1]
    /\ UNCHANGED compiler_rest

\* The expression becomes its negation
Negate ==
    /\ compiler.pc = "parsed"
    /\ compiler' = [compiler EXCEPT !.expr = Not(@), !.steps = @ + 1]
    /\ UNCHANGED compiler_rest

\* The canonicalizer runs on the expression
RunCanonicalize ==
    /\ compiler.pc = "parsed"
    /\ compiler' = [compiler EXCEPT !.canonical = Canonicalize(compiler.expr),
                                    !.pc = "canonical"]
    /\ UNCHANGED compiler_rest

\* The canonicalizer runs on its own result
RunCanonicalizeAgain ==
    /\ compiler.pc = "canonical"
    /\ compiler' = [compiler EXCEPT !.expr = compiler.canonical,
                                    !.canonical = Canonicalize(compiler.canonical),
                                    !.pc = "canonical_again"]
    /\ UNCHANGED compiler_rest

\* ImageDao.get_images(expr) on the canonical expression, over store
RunEvaluate(store) ==
    /\ compiler.pc = "canonical"
    /\ compiler' = [compiler EXCEPT !.store = store,
                                    !.images = Evaluate(compiler.canonical, store),
                                    !.pc = "evaluated"]
    /\ UNCHANGED compiler_rest

CompilerInit ==
    /\ input_text = <<>>
    /\ keystrokes = 0
    /\ search_btn_enabled = TRUE
    /\ input_field_enabled = TRUE
    /\ search_thread = 0
    /\ threads = <<>>
    /\ compound_db = TABLE_EMPTY
    /\ popup = None
    /\ tabs = EmptyTabs
    /\ aborted = FALSE
    /\ dialog = ClosedDialog
    /\ compiler = IdleCompiler
    /\ library = EmptyLibrary
    /\ edit_dialog = ClosedEditImageDialog

CompilerNext ==
    \/ \E query \in CompilerQueries : Compile(query)
    \/ /\ compiler.steps < MaxExprOps
       /\ \E kind \in {"and", "or"} : \E literal \in CompilerLiterals :
              Join(kind, literal)
    \/ compiler.steps < MaxExprOps /\ \E kind \in {"and", "or"} : Twice(kind)
    \/ compiler.steps < MaxExprOps /\ Negate
    \/ RunCanonicalize
    \/ RunCanonicalizeAgain
    \/ \E store \in Stores : RunEvaluate(store)

CompilerSpec == CompilerInit /\ [][CompilerNext]_vars

\* The images are deleted and renamed
LibraryInit ==
    /\ input_text \in {<<>>, TOK_L}
    /\ keystrokes = 0
    /\ search_btn_enabled = TRUE
    /\ input_field_enabled = TRUE
    /\ search_thread = 0
    /\ threads = <<>>
    /\ compound_db = TABLE_EMPTY
    /\ popup = None
    /\ tabs = EmptyTabs
    /\ aborted = FALSE
    /\ dialog = ClosedDialog
    /\ compiler = IdleCompiler
    /\ library \in Libraries
    /\ edit_dialog = ClosedEditImageDialog

LibraryNext ==
    \/ /\ library.ops < MaxLibraryOps
       /\ \E selected \in SUBSET DOMAIN library.db :
          \E delete \in BOOLEAN, from_disk \in BOOLEAN :
          \E deleted \in SUBSET selected, unlink_failed \in SUBSET selected :
              DeleteImages(selected, delete, from_disk, deleted, unlink_failed)
    \/ /\ library.ops < MaxLibraryOps
       /\ \E id \in DOMAIN library.db, new_path \in DOMAIN library.disk :
          \E update_ok \in BOOLEAN, overwrite \in BOOLEAN :
          \E rename_ok \in BOOLEAN, rollback_ok \in BOOLEAN :
              RenameImage(id, new_path, update_ok, overwrite, rename_ok, rollback_ok)

LibrarySpec == LibraryInit /\ [][LibraryNext]_vars

\* The EditImageDialog is opened on some images and its buttons are clicked
EditImageInit ==
    /\ input_text \in {<<>>, TOK_L}
    /\ keystrokes = 0
    /\ search_btn_enabled = TRUE
    /\ input_field_enabled = TRUE
    /\ search_thread = 0
    /\ threads = <<>>
    /\ compound_db = TABLE_EMPTY
    /\ popup = None
    /\ tabs = EmptyTabs
    /\ aborted = FALSE
    /\ dialog = ClosedDialog
    /\ compiler = IdleCompiler
    /\ library = EmptyLibrary
    /\ edit_dialog = ClosedEditImageDialog

EditImageNext ==
    \/ /\ edit_dialog.ops < MaxEditOps
       /\ \E images \in 1..MaxImages, show_skip \in BOOLEAN :
              SetImages(images, show_skip)
    \/ edit_dialog.ops < MaxEditOps /\ SkipClicked
    \/ edit_dialog.ops < MaxEditOps /\ \E ok \in BOOLEAN : EditImageOk(ok)

EditImageSpec == EditImageInit /\ [][EditImageNext]_vars

(***************************************************************************)
(* Properties                                                              *)
(***************************************************************************)

\* The thread has returned from _preprocess through its last line
Preprocessed(th) ==
    /\ ~th.tagless_images
    /\ th.exception = None
    /\ th.error # MaxRecursionMsg
    /\ th.pc \in {"check_error", "parse", "get_images", "finished", "delivered"}

\* The expansion loop of the thread has been left
ExpansionLeft(th) ==
    /\ ~th.tagless_images
    /\ th.pc \in {"restore", "check_error", "parse", "get_images", "finished",
                  "delivered", "raised"}

\* The thread record when the protection loop has ended, from the query alone
RECURSIVE ProtectAll(_)
ProtectAll(th) ==
    IF th.pc = "get_all_tags" THEN th ELSE ProtectAll(ProtectIter(th))

Protected(query) == ProtectAll([NewThread(query, FALSE) EXCEPT !.pc = "protect"])

\* The matches of the metatag-value pattern in s from position from on, left to
\* right and non-overlapping, each as [start, end]: the protectable literals
RECURSIVE LiteralsFrom(_, _)
LiteralsFrom(s, from) ==
    LET c == {p \in from..Len(s) : MetaTagMatchEnd(s, p) # 0}
    IN  IF c = {} THEN <<>>
        ELSE LET p == SetMin(c)
                 e == MetaTagMatchEnd(s, p)
             IN  <<[start |-> p, end |-> e]>> \o LiteralsFrom(s, e + 1)

\* s with its i-th literal replaced by the i-th placeholder, for every i from
\* i on; pos is the first position of s not yet copied
RECURSIVE WithPlaceholders(_, _, _, _)
WithPlaceholders(s, lits, i, pos) ==
    IF i > Len(lits) THEN SubSeq(s, pos, Len(s))
    ELSE SubSeq(s, pos, lits[i].start - 1) \o Placeholder(i)
         \o WithPlaceholders(s, lits, i + 1, lits[i].end + 1)

\* The number of non-overlapping occurrences of t in s
RECURSIVE Occurrences(_, _)
Occurrences(s, t) ==
    LET p == Find(s, t)
    IN  IF p = 0 THEN 0
        ELSE 1 + Occurrences(SubSeq(s, p + Len(t), Len(s)), t)

\* label occurs in s as a whole word, as the expansion pattern sees it
WholeWord(label, s) == \E pos \in 1..Len(s) : LabelMatchAt(s, label, pos).ok

\* The definition of tag i names tag j
Refers(tags, i, j) == WholeWord(tags[j].label, tags[i].definition)

RECURSIVE ReachFrom(_, _, _)
ReachFrom(tags, S, n) ==
    IF n = 0 THEN S
    ELSE ReachFrom(tags,
                   S \cup {j \in DOMAIN tags : \E i \in S : Refers(tags, i, j)},
                   n - 1)

\* Tag i refers to itself, directly or through other tags
Cyclic(tags, i) ==
    i \in ReachFrom(tags, {j \in DOMAIN tags : Refers(tags, i, j)}, Len(tags))

Acyclic(tags) == \A i \in DOMAIN tags : ~Cyclic(tags, i)

IsPrefix(a, b) == Len(a) <= Len(b) /\ SubSeq(b, 1, Len(a)) = a

\* C1: with no compound tags, protecting and then restoring leaves the query
\* exactly the string the thread was given.
C1_RoundTrip ==
    \A t \in DOMAIN threads :
        LET th == threads[t]
        IN  (Preprocessed(th) /\ th.compound_tags = Some(<<>>))
                => th.query = th.query_arg

\* C2: when the query names (as a whole word outside the protected literals) a
\* compound tag that refers to itself, directly or through a cycle, the
\* expansion loop ends after exactly MAXIMUM_DEPTH passes with the
\* max-recursion error.
C2_CyclicStopsAtMaxDepth ==
    \A t \in DOMAIN threads :
        LET th == threads[t]
            tags == th.compound_tags.list
        IN  (/\ ExpansionLeft(th)
             /\ ~th.compound_tags.none
             /\ \E i \in DOMAIN tags :
                    /\ WholeWord(tags[i].label, Protected(th.query_arg).query)
                    /\ Cyclic(tags, i))
                => /\ th.exception = None
                   /\ th.depth = MAXIMUM_DEPTH
                   /\ th.error = MaxRecursionMsg

\* C3: with an acyclic compound-tag table, the max-recursion error is set only
\* when the last pass still changed the text: a pass that leaves the text
\* unchanged, the MAXIMUM_DEPTH-th included, ends the expansion without error.
C3_ErrorOnlyWithoutFixedPoint ==
    \A t \in DOMAIN threads :
        LET th == threads[t]
        IN  (th.error = MaxRecursionMsg /\ Acyclic(th.compound_tags.list))
                => th.query # th.previous_query

\* C4: a protected literal that holds a compound-tag label which the rest of
\* the query does not name stands in the preprocessed query exactly as typed.
C4_ProtectedLiteralKept ==
    \A t \in DOMAIN threads :
        LET th == threads[t]
            tags == th.compound_tags.list
        IN  Preprocessed(th) =>
                \A i \in DOMAIN th.meta_tag_values :
                    (\E j \in DOMAIN tags :
                        /\ WholeWord(tags[j].label, th.meta_tag_values[i])
                        /\ ~WholeWord(tags[j].label, Protected(th.query_arg).query))
                        => Contains(th.query, th.meta_tag_values[i])

\* C5: after every expansion pass each placeholder occurs in the working
\* string as often as it did when the expansion began.
C5_ExpanderKeepsPlaceholders ==
    \A t \in DOMAIN threads :
        LET th == threads[t]
        IN  (/\ ~th.tagless_images
             /\ th.exception = None
             /\ th.depth > 0
             /\ th.pc \in {"expand", "restore"}
             /\ ~th.compound_tags.none)
                => \A i \in 1..th.index :
                       Occurrences(th.query, Placeholder(i))
                           = Occurrences(Protected(th.query_arg).query, Placeholder(i))

\* C6: when the protection loop ends, the placeholder map has the keys 1..N for
\* the N literals of the original query, map[i] is the text of the i-th literal
\* from the left, and the working string is the original with exactly the i-th
\* literal occurrence replaced by the i-th placeholder.
C6_ProtectorIndexing ==
    \A t \in DOMAIN threads :
        LET th == threads[t]
            lits == LiteralsFrom(th.query_arg, 1)
        IN  th.pc = "get_all_tags" =>
                /\ th.index = Len(lits)
                /\ Len(th.meta_tag_values) = Len(lits)
                /\ \A i \in DOMAIN lits :
                       th.meta_tag_values[i]
                           = SubSeq(th.query_arg, lits[i].start, lits[i].end)
                /\ th.query = WithPlaceholders(th.query_arg, lits, 1, 1)

\* C6 witness: the protection loop has ended on a query that holds the same
\* literal text twice
C6_Witness ==
    \E t \in DOMAIN threads :
        /\ threads[t].pc = "get_all_tags"
        /\ threads[t].index = 2
        /\ threads[t].meta_tag_values[1] = threads[t].meta_tag_values[2]

\* C7: at most one search thread is running at any time.
C7_OneSearchInFlight ==
    Cardinality({t \in DOMAIN threads : Running(threads[t])}) <= 1

\* C8: a tagless search never enters the preprocessing or the parser and never
\* touches the query; its only call is the store's tagless-images query, whose
\* result is the thread's result.
C8_TaglessBypass ==
    \A t \in DOMAIN threads :
        LET th == threads[t]
        IN  th.tagless_images =>
                /\ th.query = th.query_arg
                /\ th.index = 0 /\ th.meta_tag_values = <<>> /\ th.depth = 0
                /\ th.exception = None
                /\ th.calls \in {<<>>, <<"get_tagless_images">>}
                /\ th.pc \in {"finished", "delivered"} =>
                       /\ th.calls = <<"get_tagless_images">>
                       /\ th.images.none <=> th.error = ImageLoadingMsg
                       /\ th.error \in {None, ImageLoadingMsg}

\* C8 witness: a tagless search has finished with the store's images while the
\* query field held a quoted metatag value
C8_Witness ==
    \E t \in DOMAIN threads :
        /\ threads[t].tagless_images
        /\ threads[t].pc = "finished"
        /\ ~threads[t].images.none
        /\ Len(threads[t].images.list) > 0
        /\ MetaTagSearch(threads[t].query_arg).start # 0

\* C9: no exception leaves run, and a run that has ended either failed with a
\* message or holds a list of images.
C9_NoExceptionEscapes ==
    \A t \in DOMAIN threads :
        LET th == threads[t]
        IN  /\ th.exception = None
            /\ th.pc \in {"finished", "delivered"} =>
                   \/ Failed(th) /\ th.error # ""
                   \/ ~Failed(th) /\ ~th.images.none

\* C10: a search with a query enters its stages in the order protection,
\* compound-tag read and expansion, restoration, parsing, image read, each at
\* most once and only after the stages before it succeeded; after the
\* max-recursion error nothing is restored, parsed or read, after a syntax
\* error no image is read, and once an error is set the run only ends.
C10_PipelineOrdering ==
    \A t \in DOMAIN threads :
        LET th == threads[t]
        IN  ~th.tagless_images =>
                /\ IsPrefix(th.calls, <<"protect", "get_all_tags", "restore",
                                        "query_to_sympy", "get_images">>)
                /\ th.depth > 0 => Len(th.calls) >= 2
                /\ th.error = MaxRecursionMsg =>
                       th.calls = <<"protect", "get_all_tags">>
                /\ th.exception # None =>
                       th.calls = <<"protect", "get_all_tags">>
                /\ th.error = SyntaxErrorMsg =>
                       th.calls = <<"protect", "get_all_tags", "restore",
                                    "query_to_sympy">>
                /\ Failed(th) => th.pc \in {"check_error", "finished", "delivered"}

\* C10 witness: a search has ended failed with the max-recursion message
C10_Witness ==
    \E t \in DOMAIN threads :
        /\ ~threads[t].tagless_images
        /\ threads[t].pc = "finished"
        /\ threads[t].error = MaxRecursionMsg
        /\ threads[t].depth = MAXIMUM_DEPTH

\* The text after n passes of the expansion over tags, none of which raised
RECURSIVE PassN(_, _, _)
PassN(query, tags, n) ==
    IF n = 0 THEN query
    ELSE LET pass == ForTags(tags, 1, query).query
         IN  IF Len(pass) = 0 THEN pass ELSE PassN(pass, tags, n - 1)

\* The number of entries of calls that are call
CountCalls(calls, call) == Cardinality({i \in DOMAIN calls : calls[i] = call})

\* C11: the compound tags are read from the store once per search, before the
\* first expansion pass, and every pass works on the list read then: after d
\* passes the text is the protected query expanded d times with that list,
\* whatever was committed to the store while the search was running.
C11_SnapshotAtStart ==
    \A t \in DOMAIN threads :
        LET th == threads[t]
        IN  ~th.tagless_images =>
                /\ CountCalls(th.calls, "get_all_tags") <= 1
                /\ th.depth > 0 => CountCalls(th.calls, "get_all_tags") = 1
                /\ (th.pc \in {"expand", "restore"} /\ ~th.compound_tags.none) =>
                       th.query = PassN(Protected(th.query_arg).query,
                                        th.compound_tags.list, th.depth)

\* C11 witness: the expansion of a search has ended on its snapshot while the
\* store holds another table, with which the passes would have given another text
C11_Witness ==
    \E t \in DOMAIN threads :
        /\ threads[t].pc = "restore"
        /\ threads[t].depth > 1
        /\ ~threads[t].compound_tags.none
        /\ threads[t].compound_tags.list # compound_db
        /\ PassN(Protected(threads[t].query_arg).query, compound_db, threads[t].depth)
               # threads[t].query

\* C12: when the image store returns None for the image query, with a query or
\* tagless, the search ends failed with the image-loading message, and the
\* window's handling of that search's end shows this message and leaves the
\* lists as they were.
C12_StoreLookupFailure ==
    [][\A t \in DOMAIN threads :
          /\ (threads[t].pc = "get_images" /\ threads'[t].pc = "finished"
                  /\ threads'[t].images.none)
                => (Failed(threads'[t]) /\ threads'[t].error = ImageLoadingMsg)
          /\ (threads[t].pc = "finished" /\ threads'[t].pc = "delivered"
                  /\ threads[t].images.none)
                => (popup' = ImageLoadingMsg /\ tabs' = tabs)]_vars

\* The texts a definition cell can hold without any rewriting: the definitions
\* the database began with and the texts the user types
TypedDefinitions ==
    UNION {{t[p].definition : p \in DOMAIN t} : t \in DialogTables}
        \cup DefinitionTexts \cup {<<>>}

\* C13: the search compiles its query with simplify = True and only so; the
\* check of a definition cell calls query_to_sympy with simplify = False and
\* only so; the text of a definition cell and the definition stored in the
\* database are texts the user typed (or the database held), never the
\* simplified form of one
C13_TwoStrictnessLevels ==
    /\ \A t \in DOMAIN threads :
           IF CountCalls(threads[t].calls, "query_to_sympy") > 0
           THEN threads[t].simplify_calls = {TRUE}
           ELSE threads[t].simplify_calls = {}
    /\ dialog.simplify_calls \subseteq {FALSE}
    /\ \A row \in DOMAIN dialog.table :
           dialog.table[row].definition \in TypedDefinitions
    /\ \A p \in DOMAIN compound_db :
           compound_db[p].definition \in TypedDefinitions

\* a definition whose simplified form differs from its text was checked in the
\* dialog and stored as typed, and a search expanded it and compiled the query
C13_Witness ==
    /\ dialog.simplify_calls = {FALSE}
    /\ \E p \in DOMAIN compound_db : compound_db[p].definition = DEF_OR
    /\ \E t \in DOMAIN threads :
           /\ threads[t].simplify_calls = {TRUE}
           /\ threads[t].query = <<"(">> \o DEF_OR \o <<")">>
           /\ QueryToSympy(DEF_OR, TRUE).expr # QueryToSympy(DEF_OR, FALSE).expr

\* The definition is not blank and parses under the query grammar
ValidDefinition(definition) ==
    Strip(definition) # <<>> /\ ParseQuery(definition).ok

PreprocessEnded(th) ==
    /\ ~th.tagless_images
    /\ \/ th.exception # None
       \/ th.pc \in {"check_error", "parse", "get_images", "finished", "delivered"}

\* What _preprocess left: the query text, the error of the expander and the
\* exception
PreprocessOutcome(th) ==
    [query |-> th.query,
     error |-> IF th.error = MaxRecursionMsg THEN th.error ELSE None,
     exception |-> th.exception]

\* C15: two searches with the same query text that read the same compound-tag
\* list leave _preprocess with the same query text and the same error,
\* whatever searches ran before and whatever the database became meanwhile
C15_Deterministic ==
    \A t1, t2 \in DOMAIN threads :
        LET a == threads[t1]
            b == threads[t2]
        IN  (/\ PreprocessEnded(a)
             /\ PreprocessEnded(b)
             /\ a.query_arg = b.query_arg
             /\ a.compound_tags = b.compound_tags) =>
                PreprocessOutcome(a) = PreprocessOutcome(b)

\* a failed search, a change of the compound tags and the same change undone,
\* then a second search with the same text and the same list as the first
C15_Witness ==
    /\ Len(threads) = 2
    /\ PreprocessEnded(threads[1])
    /\ PreprocessEnded(threads[2])
    /\ threads[1].query_arg = threads[2].query_arg
    /\ threads[1].compound_tags = threads[2].compound_tags
    /\ threads[1].error = MaxRecursionMsg
    /\ threads[1].pc = "delivered"
    /\ compound_db # threads[2].compound_tags.list

\* label stands at p in s as a whole word: a non-word character or an end of
\* the string on each side
WholeWordAt(s, label, p) ==
    /\ p + Len(label) - 1 <= Len(s)
    /\ SubSeq(s, p, p + Len(label) - 1) = label
    /\ p = 1 \/ s[p - 1] \notin WordChars
    /\ p + Len(label) = Len(s) + 1 \/ s[p + Len(label)] \notin WordChars

\* s from p on, every whole-word occurrence of the label of tag replaced by
\* its definition in parentheses, the other characters kept
RECURSIVE Replaced(_, _, _)
Replaced(s, tag, p) ==
    IF p > Len(s) THEN <<>>
    ELSE IF WholeWordAt(s, tag.label, p)
    THEN <<"(">> \o tag.definition \o <<")">>
             \o Replaced(s, tag, p + Len(tag.label))
    ELSE <<s[p]>> \o Replaced(s, tag, p + 1)

\* s with the labels of tags i..Len(tags) replaced, tag after tag
RECURSIVE ReplacedAll(_, _, _)
ReplacedAll(s, tags, i) ==
    IF i > Len(tags) THEN s
    ELSE ReplacedAll(Replaced(s, tags[i], 1), tags, i + 1)

\* ReplacedAll repeated until nothing changes, n times at most
RECURSIVE FullyReplaced(_, _, _)
FullyReplaced(s, tags, n) ==
    IF n = 0 THEN s
    ELSE LET next == ReplacedAll(s, tags, 1)
         IN  IF next = s THEN s ELSE FullyReplaced(next, tags, n - 1)

\* C16: when the expansion loop ends without error, no label of a compound tag
\* is left as a whole word in the text, and the text is the protected query
\* with every whole-word occurrence of a label replaced by the definition in
\* parentheses, until none is left, all other characters kept
C16_ExpansionFixedPoint ==
    \A t \in DOMAIN threads :
        LET th == threads[t]
            tags == th.compound_tags.list
        IN  (/\ ~th.tagless_images
             /\ th.pc = "restore"
             /\ th.exception = None
             /\ NoError(th.error)) =>
                /\ \A i \in DOMAIN tags :
                       \A p \in 1..Len(th.query) : ~WholeWordAt(th.query, tags[i].label, p)
                /\ th.query = FullyReplaced(Protected(th.query_arg).query, tags,
                                            MAXIMUM_DEPTH)

\* The number of quote and slash characters of s: every literal holds two
Delimiters(s) == Cardinality({p \in DOMAIN s : s[p] \in {DQ, SL}})

\* C17: every iteration of the protection loop either finds no literal and
\* leaves the loop with the working string as it was, or replaces one text that
\* matches the literal pattern by the next placeholder, the text before and
\* after it unchanged, which lowers the number of delimiters left (so the loop
\* ends); no iteration sets an error or raises
C17_ProtectorTotal ==
    [][\A t \in DOMAIN threads :
          (threads[t].pc = "protect" /\ threads'[t] # threads[t]) =>
              LET a == threads[t]
                  b == threads'[t]
              IN  /\ b.error = None
                  /\ b.exception = None
                  /\ b.pc \in {"protect", "get_all_tags"}
                  /\ b.pc = "get_all_tags" =>
                         /\ b.query = a.query
                         /\ \A p \in DOMAIN a.query : MetaTagMatchEnd(a.query, p) = 0
                  /\ b.pc = "protect" =>
                         /\ Delimiters(b.query) < Delimiters(a.query)
                         /\ \E p \in DOMAIN a.query :
                                LET e == MetaTagMatchEnd(a.query, p)
                                IN  /\ e # 0
                                    /\ b.query = SubSeq(a.query, 1, p - 1)
                                                     \o Placeholder(b.index)
                                                     \o SubSeq(a.query, e + 1, Len(a.query))]_vars

\* the protection loop has ended on the query k:"", the shortest literal
C17_Witness ==
    \E t \in DOMAIN threads :
        /\ threads[t].pc = "get_all_tags"
        /\ threads[t].error = None
        /\ threads[t].query_arg = TOK_OPEN \o TOK_DQ
        /\ threads[t].query = Placeholder(1)

\* C18: for every tag a, the query a and not (not a) has the canonical form of
\* the query a, the query a or a has the canonical form a, and the query
\* a and not a has the canonical form Const(false)
C18_BooleanEquivalence ==
    \A a \in CompilerTags :
        (compiler.pc = "canonical" /\ compiler.steps = 0) =>
            /\ compiler.query = AndNotNot(a) =>
                   /\ compiler.canonical = QueryToSympy(a, TRUE).expr
                   /\ compiler.canonical = TagLiteral(a, FALSE)
            /\ compiler.query = OrSelf(a) => compiler.canonical = TagLiteral(a, FALSE)
            /\ compiler.query = AndNot(a) => compiler.canonical = Const(FALSE)

\* the query b and not (not b) has been parsed, as an And that holds the
\* negation of a group, and canonicalized
C18_Witness ==
    /\ compiler.pc = "canonical"
    /\ compiler.steps = 0
    /\ compiler.query = AndNotNot(<<"b">>)
    /\ compiler.expr = And(<<TagLiteral(<<"b">>, FALSE),
                             Not(TagLiteral(<<"b">>, TRUE))>>)

\* C19: the canonical form of a canonical form is that canonical form
C19_Idempotent ==
    compiler.pc = "canonical_again" => compiler.canonical = compiler.expr

\* the canonicalizer ran again on the canonical form And(a, b) of an expression
\* built from the query a b in as many operations as the bound allows
C19_Witness ==
    /\ compiler.pc = "canonical_again"
    /\ compiler.query = QUERY_A_B
    /\ compiler.steps = MaxExprOps
    /\ compiler.canonical = And(<<TagLiteral(<<"a">>, FALSE),
                                  TagLiteral(<<"b">>, FALSE)>>)

\* Image i matches e: the truth value of e where a name is true when i is a
\* member of it
RECURSIVE Matches(_, _, _)
Matches(e, i, store) ==
    IF e.kind = "const" THEN e.value
    ELSE IF IsLiteral(e) THEN (i \in store.members[e.name]) # e.negated
    ELSE IF e.kind = "not" THEN ~Matches(e.children[1], i, store)
    ELSE IF e.kind = "and"
    THEN \A c \in DOMAIN e.children : Matches(e.children[c], i, store)
    ELSE \E c \in DOMAIN e.children : Matches(e.children[c], i, store)

\* C20: the evaluator selects the images of the universe that match the
\* canonical expression: the member set for a tag literal, the universe minus
\* the member set for a negated literal, the images matching every child for
\* And and some child for Or, the universe for Const(true), none for Const(false)
C20_EvaluatorSemantics ==
    compiler.pc = "evaluated" =>
        LET e == compiler.canonical
            store == compiler.store
        IN  /\ compiler.images = {i \in store.universe : Matches(e, i, store)}
            /\ (IsLiteral(e) /\ ~e.negated) => compiler.images = store.members[e.name]
            /\ (IsLiteral(e) /\ e.negated) =>
                   compiler.images = store.universe \ store.members[e.name]
            /\ e = Const(TRUE) => compiler.images = store.universe
            /\ e = Const(FALSE) => compiler.images = {}

\* the query -a was evaluated over a store with an image that has no tag: the
\* image is selected
C20_Witness ==
    /\ compiler.pc = "evaluated"
    /\ compiler.query = Minus(<<"a">>)
    /\ compiler.steps = 0
    /\ compiler.canonical = TagLiteral(<<"a">>, TRUE)
    /\ 3 \in compiler.images
    /\ 1 \notin compiler.images


\* C21: every search that _fetch_images starts (the search button and the query
\* field are disabled) is followed by a state where the button and the field
\* are enabled again, whatever the way the search ends
C21_ControlsReleased ==
    (~search_btn_enabled /\ ~input_field_enabled)
        ~> (search_btn_enabled /\ input_field_enabled)

\* The rows of the three loops of the last apply of the compound tags tab
\* whose DAO call was made and returned False
FailedRows(set) == dialog.apply_log.attempted[set] \cap dialog.apply_log.failed

\* C22: after apply() on the compound tags tab the added, deleted and changed
\* row sets hold exactly the rows whose DAO call failed in this call, no row
\* whose call succeeded is left in them, and apply returns True exactly when
\* every call it made succeeded
C22_ApplyTracksFailures ==
    (dialog.apply_log.called /\ "compound" \in dialog.apply_log.tabs) =>
        /\ \A set \in {"added", "deleted", "changed"} :
               /\ dialog.apply_log.after[set] = FailedRows(set)
               /\ (dialog.apply_log.attempted[set] \ dialog.apply_log.failed)
                      \cap dialog.apply_log.after[set] = {}
        /\ ~dialog.apply_log.raised =>
               (dialog.apply_log.ok <=>
                   \A set \in {"added", "deleted", "changed"} : FailedRows(set) = {})

\* C23: _delete_images changes nothing when the confirmation is declined; a
\* file is unlinked only if disk deletion was chosen and the record of its
\* image was deleted in this call; and every selected image is handled even
\* when the unlink of another one failed: its record goes when delete_image
\* succeeds and its file goes when, on top of that, disk deletion was chosen
\* and its own unlink did not fail
C23_DeleteAsksFirst ==
    [][(library'.ops = library.ops + 1 /\ library'.last.op = "delete") =>
          LET last == library'.last
          IN  /\ ~last.confirmed =>
                     /\ library'.db = library.db
                     /\ library'.disk = library.disk
                     /\ threads' = threads
              /\ \A p \in DOMAIN library.disk :
                     (library.disk[p] # 0 /\ library'.disk[p] = 0) =>
                         /\ last.from_disk
                         /\ \E i \in last.selected :
                                /\ library.db[i] = p
                                /\ i \in last.records
                                /\ library'.db[i] = 0
              /\ last.confirmed =>
                     \A i \in last.selected :
                         /\ i \in last.records => library'.db[i] = 0
                         /\ i \notin last.records => library'.db[i] = library.db[i]
                         /\ (i \in last.records /\ last.from_disk
                                 /\ i \notin last.errors) =>
                                library'.disk[library.db[i]] = 0]_vars

\* Both images were selected and deleted from the database and from disk: the
\* unlink of image 1 failed, the file of image 2 is gone all the same
C23_Witness ==
    /\ library.last.op = "delete"
    /\ library.last.confirmed
    /\ library.last.from_disk
    /\ library.last.selected = {1, 2}
    /\ library.last.records = {1, 2}
    /\ library.last.errors = {1}
    /\ library.disk = <<1, 0, 0>>
    /\ library.db = <<0, 0>>

\* C27: after _rename_image (the update of the rollback, where there is one,
\* did not fail) the path of the record of the image is the path where the
\* file of the image is
C27_RenameConsistent ==
    (library.last.op = "rename" /\ ~library.last.rollback_failed) =>
        library.disk[library.db[library.last.id]] = library.last.id

\* C24: once set_images has handed the EditImageDialog its images, the index
\* stays within 0..len(images)-1 whatever is clicked; Skip and an OK that was
\* applied on an image that is not the last one move it forward by one, an OK
\* that failed does not move it, and _apply asks to close only when the apply
\* of the last image succeeded
C24_OneAfterAnother ==
    [][(edit_dialog'.ops = edit_dialog.ops + 1) =>
          LET last == edit_dialog'.last
              on_last == edit_dialog.index = edit_dialog.images - 1
          IN  /\ edit_dialog'.index \in 0..(edit_dialog'.images - 1)
              /\ edit_dialog'.exception = None
              /\ last.op = "skip" => edit_dialog'.index = edit_dialog.index + 1
              /\ last.op = "ok" =>
                     /\ (last.ok /\ ~on_last) =>
                            edit_dialog'.index = edit_dialog.index + 1
                     /\ ~last.ok => edit_dialog'.index = edit_dialog.index
                     /\ last.close <=> (last.ok /\ on_last)
                     /\ edit_dialog'.open <=> ~last.close]_vars

\* Three images: the first was skipped, the OK of the second failed and then
\* succeeded, and the dialog shows the last image with Skip disabled
C24_Witness ==
    /\ edit_dialog.open
    /\ edit_dialog.images = 3
    /\ edit_dialog.index = 2
    /\ edit_dialog.show_skip
    /\ ~edit_dialog.skip_enabled
    /\ edit_dialog.error # None
    /\ edit_dialog.last = [op |-> "ok", ok |-> TRUE, close |-> FALSE]
    /\ edit_dialog.ops = 4

\* C25: whenever _on_fetch_done runs for the finished signal of a thread, the
\* thread it reads (self._search_thread) is that thread, and that thread has
\* ended its run
C25_ResultsOfFinishedSearch ==
    [][\A t \in DOMAIN threads :
           (threads[t].pc = "finished" /\ threads'[t].pc = "delivered") =>
               /\ search_thread = t
               /\ ~Running(threads[search_thread])]_vars

\* C26: the added, changed and deleted row sets of the compound tags tab are
\* pairwise disjoint, whatever rows are added, edited and deleted and whatever
\* tag types are deleted
C26_RowSetsDisjoint ==
    dialog.open =>
        /\ dialog.added_rows \cap dialog.changed_rows = {}
        /\ dialog.added_rows \cap dialog.deleted_rows = {}
        /\ dialog.changed_rows \cap dialog.deleted_rows = {}

\* C30: an Apply of the tags dialog that returns has called apply() on the tag
\* types, the compound tags and the tags tab, whichever of them failed; the
\* error popup is shown if and only if a tab failed, and the Apply button is
\* disabled only when every tab succeeded
C30_ApplyAttemptsEveryTab ==
    (dialog.apply_log.called /\ ~dialog.apply_log.raised) =>
        /\ dialog.apply_log.tabs = {"types", "compound", "tags"}
        /\ dialog.apply_log.error_shown <=> dialog.apply_log.failed_tabs # {}
        /\ dialog.apply_log.apply_disabled => dialog.apply_log.failed_tabs = {}

\* C29: when _on_fetch_done runs for a search that failed (its error is not
\* None), the error message of that search is shown and the contents and the
\* titles of both image-list tabs stay what they were
C29_FailedSearchKeepsDisplay ==
    [][\A t \in DOMAIN threads :
          (/\ threads[t].pc = "finished"
           /\ threads'[t].pc = "delivered"
           /\ threads[t].error # None) =>
              /\ popup' = threads[t].error
              /\ tabs' = tabs]_vars

\* C28: when the query is a compound tag whose definition holds a quote- or
\* regex-delimited metatag value, the query _preprocess hands on without an
\* error still holds that value as the definition wrote it
C28_DefinitionValuesKept ==
    \A t \in DOMAIN threads :
        LET th == threads[t]
        IN  (th.pc = "check_error" /\ th.error = None /\ ~th.compound_tags.none) =>
                \A i \in DOMAIN th.compound_tags.list :
                    \A value \in DefinitionValues :
                        (/\ th.compound_tags.list[i].label = th.query_arg
                         /\ Contains(th.compound_tags.list[i].definition, value)) =>
                            Contains(th.query, value)

====
